---- MODULE Spec2Model ----
(***************************************************************************)
(* Token chaincode and token-request translator of fabric-token-sdk.       *)
(*                                                                         *)
(* Spec     : TokenChaincode.Init / TokenChaincode.invoke driving a        *)
(*            Translator over one ledger (tcc.go, translator).             *)
(* SpecReq  : Request.Transfer / Request.Redeem and prepareTransfer.       *)
(***************************************************************************)
EXTENDS Integers, Sequences, FiniteSets, TLC

\* ------------------------------------------------------------------------
\* Bounds
\* ------------------------------------------------------------------------
\* number of distinct anchors (stub.GetTxID values)
MaxTx == 2
\* outputs one request may carry in total: token indices are 0..MaxOutputs-1
MaxOutputs == 2
\* actions the validator returns for one request
MaxActions == 2
\* input keys one transfer action names
MaxInputs == 2
\* serial numbers (nullifier keys) of graph-hiding transfers
MaxSerial == 1
\* distinct raw token requests
MaxRaw == 1
\* invocations of the chaincode in one behaviour
MaxRequests == 3

TxIDs == 1..MaxTx
Indices == 0..(MaxOutputs - 1)
Serials == 1..MaxSerial
Raws == 1..MaxRaw

\* ------------------------------------------------------------------------
\* Ledger keys (package keys) and stored values
\* ------------------------------------------------------------------------
CreateTokenKey(txID, index) == <<"tok", txID, index>>
CreateTokenRequestKey(txID) == <<"req", txID>>
CreateSetupKey == <<"setup", 0>>
SerialKey(s) == <<"sn", s>>

TokenKeys == {CreateTokenKey(t, x) : t \in TxIDs, x \in Indices}
SerialKeys == {SerialKey(s) : s \in Serials}
RequestKeys == {CreateTokenRequestKey(t) : t \in TxIDs}
Keys == TokenKeys \cup SerialKeys \cup RequestKeys \cup {CreateSetupKey}

\* a key that holds no value (GetState returns nil)
Nil == <<"nil">>
\* a serialized output token
OutputBytes == <<"output">>
\* strconv.FormatBool(true)
FormatBoolTrue == <<"true">>
RawBytes(r) == <<"raw", r>>
\* the serialized public parameters written by Init
SetupParameters == <<"pp">>

\* keys.Action tags
NoTag == "none"
ActionIssue == "issue"
ActionTransfer == "transfer"

\* a key that holds a byte slice of length zero (GetState returns []byte{})
Empty == <<>>

\* len() of a byte slice, as far as the code looks at it: zero or not
len(bytes) == IF bytes = Nil \/ bytes = Empty THEN 0 ELSE 1

\* ------------------------------------------------------------------------
\* RWSet: the ledger accessor the translator writes through
\* ------------------------------------------------------------------------
EmptyRWSet == [st |-> [k \in Keys |-> Nil], md |-> [k \in Keys |-> NoTag]]

GetState(rws, key) == rws.st[key]
SetState(rws, key, value) == [rws EXCEPT !.st[key] = value]
DeleteState(rws, key) == [rws EXCEPT !.st[key] = Nil]
SetStateMetadata(rws, key, tag) == [rws EXCEPT !.md[key] = tag]

\* ------------------------------------------------------------------------
\* Token actions as the translator sees them (IssueAction, TransferAction)
\* ------------------------------------------------------------------------
NumOutputs(action) == Len(action.outputs)
\* i is the 0-based output index of the code
IsRedeemAt(action, i) == action.redeem[i + 1]
IsGraphHiding(action) == action.gh
GetInputs(action) == action.inputs
SerializeOutputAt(action, i) == action.outputs[i + 1]
GetSerializedOutputs(action) == action.outputs

SeqsUpTo(S, lo, hi) == UNION {[1..m -> S] : m \in lo..hi}

IssueActions ==
  {[kind |-> "issue", gh |-> FALSE, inputs |-> <<>>,
    outputs |-> [j \in 1..m |-> OutputBytes],
    redeem |-> [j \in 1..m |-> FALSE]] : m \in 1..MaxOutputs}

\* a transfer that is not graph hiding names token keys, a graph-hiding
\* transfer names serial numbers
TransferActions ==
  {[kind |-> "transfer", gh |-> g, inputs |-> ins,
    outputs |-> [j \in 1..Len(rd) |-> OutputBytes], redeem |-> rd] :
      g \in {FALSE}, ins \in SeqsUpTo(TokenKeys, 1, MaxInputs),
      rd \in SeqsUpTo(BOOLEAN, 1, MaxOutputs)}
  \cup
  {[kind |-> "transfer", gh |-> g, inputs |-> ins,
    outputs |-> [j \in 1..Len(rd) |-> OutputBytes], redeem |-> rd] :
      g \in {TRUE}, ins \in SeqsUpTo(SerialKeys, 1, MaxInputs),
      rd \in SeqsUpTo(BOOLEAN, 1, MaxOutputs)}

TokenActions == IssueActions \cup TransferActions

\* ------------------------------------------------------------------------
\* Translator (w.TxID, w.counter over an RWSet)
\* ------------------------------------------------------------------------
NoErr == "nil"
ErrSpent == "invalid transfer: input is already spent"
ErrExists == "token already exists"
ErrSameID == "token request with same ID already exists"

\* variant: the output key is not looked up
checkTokenDoesNotExist_unchecked(rws, index, txID) == NoErr

checkTokenDoesNotExist(rws, index, txID) ==
  LET outputBytes == GetState(rws, CreateTokenKey(txID, index))
  IN  IF len(outputBytes) # 0 THEN ErrExists ELSE NoErr

\* for i := 0; i < issue.NumOutputs(); i++ { checkTokenDoesNotExist(w.counter+i) }
RECURSIVE checkIssueFrom(_, _, _, _, _)
checkIssueFrom(rws, txID, counter, issue, i) ==
  IF i >= NumOutputs(issue) THEN NoErr
  ELSE LET err == checkTokenDoesNotExist(rws, counter + i, txID)
       IN  IF err # NoErr THEN err
           ELSE checkIssueFrom(rws, txID, counter, issue, i + 1)

\* checkIssuePolicy: the chaincode's allIssuersValid accepts every issuer
checkIssuePolicy(issue) == NoErr

checkIssue(rws, txID, counter, issue) ==
  LET err == checkIssuePolicy(issue)
  IN  IF err # NoErr THEN err
      ELSE checkIssueFrom(rws, txID, counter, issue, 0)

\* the input loop of checkTransfer when the action is not graph hiding
RECURSIVE checkInputsExist(_, _, _)
checkInputsExist(rws, keys, j) ==
  IF j > Len(keys) THEN NoErr
  ELSE LET bytes == GetState(rws, keys[j])
       IN  IF len(bytes) = 0 THEN ErrSpent
           ELSE checkInputsExist(rws, keys, j + 1)

\* variant: the serial keys are not looked up
checkInputsAbsent_unchecked(rws, keys, j) == NoErr

\* the input loop of checkTransfer when the action is graph hiding
RECURSIVE checkInputsAbsent(_, _, _)
checkInputsAbsent(rws, keys, j) ==
  IF j > Len(keys) THEN NoErr
  ELSE LET bytes == GetState(rws, keys[j])
       IN  IF len(bytes) # 0 THEN ErrSpent
           ELSE checkInputsAbsent(rws, keys, j + 1)

RECURSIVE checkTransferOutputsFrom(_, _, _, _, _)
checkTransferOutputsFrom(rws, txID, counter, t, i) ==
  IF i >= NumOutputs(t) THEN NoErr
  ELSE IF ~IsRedeemAt(t, i)
       THEN LET err == checkTokenDoesNotExist(rws, counter + i, txID)
            IN  IF err # NoErr THEN err
                ELSE checkTransferOutputsFrom(rws, txID, counter, t, i + 1)
       ELSE checkTransferOutputsFrom(rws, txID, counter, t, i + 1)

checkTransfer(rws, txID, counter, t) ==
  LET keys == GetInputs(t)
      err == IF ~IsGraphHiding(t) THEN checkInputsExist(rws, keys, 1)
             ELSE checkInputsAbsent(rws, keys, 1)
  IN  IF err # NoErr THEN err
      ELSE checkTransferOutputsFrom(rws, txID, counter, t, 0)

checkAction(rws, txID, counter, action) ==
  CASE action.kind = "issue" -> checkIssue(rws, txID, counter, action)
    [] action.kind = "transfer" -> checkTransfer(rws, txID, counter, action)
    [] action.kind = "setup" -> NoErr

commitSetupAction(rws, setup) == SetState(rws, CreateSetupKey, setup.params)

\* for i, output := range outputs { SetState; SetStateMetadata(action=issue) }
RECURSIVE commitIssueOutputs(_, _, _, _, _)
commitIssueOutputs(rws, txID, base, outputs, i) ==
  IF i >= Len(outputs) THEN rws
  ELSE LET outputID == CreateTokenKey(txID, base + i)
           r1 == SetState(rws, outputID, outputs[i + 1])
           r2 == SetStateMetadata(r1, outputID, ActionIssue)
       IN  commitIssueOutputs(r2, txID, base, outputs, i + 1)

\* result: the RWSet and the counter after the action
commitIssueAction(rws, txID, counter, issueAction) ==
  LET base == counter
      outputs == GetSerializedOutputs(issueAction)
  IN  [rws |-> commitIssueOutputs(rws, txID, base, outputs, 0),
       counter |-> counter + Len(outputs)]

RECURSIVE spendDelete(_, _, _)
spendDelete(rws, ids, j) ==
  IF j > Len(ids) THEN rws
  ELSE spendDelete(SetStateMetadata(DeleteState(rws, ids[j]), ids[j], NoTag),
                   ids, j + 1)

RECURSIVE spendMark(_, _, _)
spendMark(rws, ids, j) ==
  IF j > Len(ids) THEN rws
  ELSE spendMark(SetState(rws, ids[j], FormatBoolTrue), ids, j + 1)

\* variant: the metadata of a deleted input stays
spendTokens_metadataKept(rws, ids, graphHiding) ==
  IF ~graphHiding
  THEN [rws EXCEPT !.st = [k \in Keys |->
          IF \E j \in 1..Len(ids) : ids[j] = k THEN Nil ELSE rws.st[k]]]
  ELSE spendMark(rws, ids, 1)

spendTokens(rws, ids, graphHiding) ==
  IF ~graphHiding THEN spendDelete(rws, ids, 1) ELSE spendMark(rws, ids, 1)

\* variant: the redeemed outputs are written too
RECURSIVE commitTransferOutputs_redeemedToo(_, _, _, _, _)
commitTransferOutputs_redeemedToo(rws, txID, base, t, i) ==
  IF i >= NumOutputs(t) THEN rws
  ELSE LET outputID == CreateTokenKey(txID, base + i)
           r1 == SetState(rws, outputID, SerializeOutputAt(t, i))
           r2 == SetStateMetadata(r1, outputID, ActionTransfer)
       IN  commitTransferOutputs_redeemedToo(r2, txID, base, t, i + 1)

RECURSIVE commitTransferOutputs(_, _, _, _, _)
commitTransferOutputs(rws, txID, base, t, i) ==
  IF i >= NumOutputs(t) THEN rws
  ELSE IF ~IsRedeemAt(t, i)
       THEN LET outputID == CreateTokenKey(txID, base + i)
                r1 == SetState(rws, outputID, SerializeOutputAt(t, i))
                r2 == SetStateMetadata(r1, outputID, ActionTransfer)
            IN  commitTransferOutputs(r2, txID, base, t, i + 1)
       ELSE commitTransferOutputs(rws, txID, base, t, i + 1)

\* variant: the counter advances by the outputs that are not redeemed only
commitTransferAction_skipRedeemed(rws, txID, counter, transferAction) ==
  LET r1 == commitTransferOutputs(rws, txID, counter, transferAction, 0)
      r2 == spendTokens(r1, GetInputs(transferAction), IsGraphHiding(transferAction))
      written == {x \in 0..(NumOutputs(transferAction) - 1) :
                    ~IsRedeemAt(transferAction, x)}
  IN  [rws |-> r2, counter |-> counter + Cardinality(written)]

commitTransferAction(rws, txID, counter, transferAction) ==
  LET base == counter
      r1 == commitTransferOutputs(rws, txID, base, transferAction, 0)
      ids == GetInputs(transferAction)
      r2 == spendTokens(r1, ids, IsGraphHiding(transferAction))
  IN  [rws |-> r2, counter |-> counter + NumOutputs(transferAction)]

commitAction(rws, txID, counter, action) ==
  CASE action.kind = "issue" -> commitIssueAction(rws, txID, counter, action)
    [] action.kind = "transfer" -> commitTransferAction(rws, txID, counter, action)
    [] action.kind = "setup" ->
         [rws |-> commitSetupAction(rws, action), counter |-> counter]

\* Translator.Write: checkProcess, then commitProcess
Write(rws, txID, counter, action) ==
  LET err == checkAction(rws, txID, counter, action)
  IN  IF err # NoErr THEN [err |-> err, rws |-> rws, counter |-> counter]
      ELSE LET c == commitAction(rws, txID, counter, action)
           IN  [err |-> NoErr, rws |-> c.rws, counter |-> c.counter]

\* variant: the request is stored without looking at the key
CommitTokenRequest_overwrite(rws, txID, rawReq) ==
  [err |-> NoErr, rws |-> SetState(rws, CreateTokenRequestKey(txID), rawReq)]

CommitTokenRequest(rws, txID, rawReq) ==
  LET key == CreateTokenRequestKey(txID)
      tr == GetState(rws, key)
  IN  IF tr # Nil THEN [err |-> ErrSameID, rws |-> rws]
      ELSE [err |-> NoErr, rws |-> SetState(rws, key, rawReq)]

ReadSetupParameters(rws) == GetState(rws, CreateSetupKey)

ErrQueryTokens == "failed quering tokens"

\* a TxId keys.CreateTokenKey returns an error for
BadTxID == -1
\* stands for a key whose RWSet.GetState returns an error
ReadFails == <<"GetState fails">>

\* one round of the loop of QueryTokens appends to errs
appendsErr(rws, id) ==
  IF id[1] = BadTxID THEN TRUE
  ELSE LET value == GetState(rws, CreateTokenKey(id[1], id[2]))
       IN  value = ReadFails \/ len(value) = 0

\* variant: the ids that have no value are left out of the answer
QueryTokens_found(rws, ids) ==
  LET found == SelectSeq(ids, LAMBDA id : ~appendsErr(rws, id))
  IN  [err |-> NoErr,
       res |-> [j \in 1..Len(found) |->
                  GetState(rws, CreateTokenKey(found[j][1], found[j][2]))]]

\* Translator.QueryTokens; an id is <<TxId, Index>>
QueryTokens(rws, ids) ==
  LET errs == {j \in 1..Len(ids) : appendsErr(rws, ids[j])}
  IN  IF errs # {} THEN [err |-> ErrQueryTokens, res |-> <<>>]
      ELSE [err |-> NoErr,
            res |-> [j \in 1..Len(ids) |->
                       GetState(rws, CreateTokenKey(ids[j][1], ids[j][2]))]]

\* ------------------------------------------------------------------------
\* TokenChaincode (tcc.go)
\* ------------------------------------------------------------------------
VARIABLES
  ledger,      \* the ledger behind the stub, read and written through the RWSet
  cc,       \* TokenChaincode: PPDigest, Validator, PublicParametersManager
  pc,       \* position of the running invocation: idle, verify, write, done
  tx,       \* stub.GetTxID() of the running invocation
  raw,      \* the raw token request of the running invocation
  counter,  \* Translator.counter
  i,        \* number of actions of the request already written
  resp,     \* the pb.Response of the invocation
  ledger0,     \* history: the ledger when the invocation started
  spent,    \* history: token keys consumed by a written transfer
  snUses,   \* history: written graph-hiding transfers naming a serial key
  everWritten, \* history: token keys that were written with a value
  committed,   \* history: the raw request first stored for each anchor
  sumOut,   \* history: outputs of the actions of this request written so far
  lastAct,  \* history: kind of the action the last Write was called with
  reqs,     \* history: invocations started
  vault,    \* the tokens the vault's query engine knows, by token id
  req,      \* Request: Actions.Transfers and Metadata.Transfers
  out,      \* outcome of the last call on the Request
  signed,   \* a token request with its signatures, and the validator's verdict
  listed,   \* the request given to the validator, the actions it returned,
            \* and history: the actions handed to Write, in order
  rp,       \* rangeproof: the Prover with its Verifier, the Proof, the verdict
  sg,       \* sigproof: a SigVerifier, the SigProof given to it, the verdict
  an,       \* anonym: the Signer, its signature, what Verify was given, the verdict
  ex,       \* a ledger, the existence check run on it and its outcome
  pm,       \* a chaincode with its ledger whose setup parameters change,
            \* and history: what the last handler read, built and used
  rc,       \* two invocations running on one TokenChaincode
  qt,       \* a ledger, the ids given to QueryTokens and what it returned
  sm,       \* selectorService: its mutex and lockers, the goroutines calling
            \* SelectorManager, and history: the calls of LockerProvider.New
  mr,       \* a Request's TxID and Actions, and history: the last operation
            \* on it and the bytes MarshallToSign and MarshallToAudit gave before
  sl        \* selector: the vault, the locker, the call of Select, its result

hist == <<spent, snUses, everWritten, committed>>

ccVars == <<ledger, cc, pc, tx, raw, counter, i, resp, ledger0, hist, sumOut, lastAct, reqs>>

reqVars == <<vault, req, out>>

svcVars == <<pm, rc, qt, sl, sm, mr>>

pureVars == <<signed, listed, rp, sg, an, ex, svcVars>>

vars == <<ccVars, reqVars, pureVars>>

NoTx == 0
NoResp == [status |-> "none", msg |-> "none"]
Success == [status |-> "ok", msg |-> "none"]
Error(msg) == [status |-> "error", msg |-> msg]

ErrNotInitialized == "public parameters are not initiliazed yet"
ErrFactory == "failed to instantiate public parameter manager and validator"
ErrVerify == "failed to verify token request"

\* sha256 of the public parameters: distinct inputs give distinct digests
SHA256(ppRaw) == <<"sha256", ppRaw>>
NoDigest == <<"sha256", Nil>>
NoService == <<"nil", Nil>>
NewCC == [PPDigest |-> NoDigest, Validator |-> NoService,
          PublicParametersManager |-> NoService]

\* TokenServicesFactory(ppRaw): the pair built from ppRaw
TokenServicesFactory(ppRaw) ==
  [ppm |-> <<"ppm", ppRaw>>, validator |-> <<"validator", ppRaw>>]

\* variant: a cached validator is reused whatever the ledger holds
init_keepCached(c, rws, factoryOK) ==
  LET ppRaw == ReadSetupParameters(rws)
      digest == SHA256(ppRaw)
  IN  IF len(ppRaw) = 0
      THEN [err |-> ErrNotInitialized, cc |-> c, called |-> FALSE]
      ELSE IF c.PPDigest # NoDigest /\ c.Validator # NoService
      THEN [err |-> NoErr, cc |-> c, called |-> FALSE]
      ELSE IF ~factoryOK THEN [err |-> ErrFactory, cc |-> c, called |-> TRUE]
      ELSE LET f == TokenServicesFactory(ppRaw)
           IN  [err |-> NoErr, called |-> TRUE,
                cc |-> [PPDigest |-> digest, Validator |-> f.validator,
                        PublicParametersManager |-> f.ppm]]

\* TokenChaincode.init; factoryOK: whether TokenServicesFactory succeeds;
\* called: whether TokenServicesFactory was called
init(c, rws, factoryOK) ==
  LET ppRaw == ReadSetupParameters(rws)
      digest == SHA256(ppRaw)
  IN  IF len(ppRaw) = 0
      THEN [err |-> ErrNotInitialized, cc |-> c, called |-> FALSE]
      ELSE IF c.PPDigest # NoDigest /\ c.Validator # NoService
              /\ digest = c.PPDigest
      THEN [err |-> NoErr, cc |-> c, called |-> FALSE]
      ELSE IF ~factoryOK THEN [err |-> ErrFactory, cc |-> c, called |-> TRUE]
      ELSE LET f == TokenServicesFactory(ppRaw)
           IN  [err |-> NoErr, called |-> TRUE,
                cc |-> [PPDigest |-> digest, Validator |-> f.validator,
                        PublicParametersManager |-> f.ppm]]

InitCC ==
  /\ ledger = EmptyRWSet
  /\ cc = NewCC
  /\ pc = "idle"
  /\ tx = NoTx
  /\ raw = 0
  /\ counter = 0
  /\ i = 0
  /\ resp = NoResp
  /\ ledger0 = EmptyRWSet
  /\ spent = {}
  /\ snUses = [k \in SerialKeys |-> 0]
  /\ everWritten = {}
  /\ committed = [t \in TxIDs |-> 0]
  /\ sumOut = 0
  /\ lastAct = "none"
  /\ reqs = 0

\* TokenChaincode.Init: write the public parameters as a setup action
TokenChaincode_Init ==
  /\ pc = "idle"
  /\ GetState(ledger, CreateSetupKey) = Nil
  /\ LET w == Write(ledger, NoTx, 0, [kind |-> "setup", params |-> SetupParameters])
     IN  ledger' = w.rws
  /\ UNCHANGED <<cc, pc, tx, raw, counter, i, resp, ledger0, hist, sumOut, lastAct, reqs>>
  /\ UNCHANGED <<reqVars, pureVars>>

\* invoke, lines 247-250: cc.validator(stub)
invoke_validator ==
  /\ pc = "idle"
  /\ reqs < MaxRequests
  /\ \E t \in TxIDs, r \in Raws, factoryOK \in BOOLEAN :
       LET x == init(cc, ledger, factoryOK)
       IN  /\ tx' = t
           /\ raw' = r
           /\ ledger0' = ledger
           /\ reqs' = reqs + 1
           /\ cc' = x.cc
           /\ IF x.err # NoErr
              THEN pc' = "done" /\ resp' = Error(x.err)
              ELSE pc' = "verify" /\ resp' = NoResp
  /\ UNCHANGED <<ledger, counter, i, hist, sumOut, lastAct, reqVars, pureVars>>

\* variant: the raw request is stored before it is verified
invoke_verify_storeFirst ==
  /\ pc = "verify"
  /\ ledger' = SetState(ledger, CreateTokenRequestKey(tx), RawBytes(raw))
  /\ \/ /\ pc' = "done"
        /\ resp' = Error(ErrVerify)
        /\ UNCHANGED <<i, counter>>
     \/ /\ i' = 0
        /\ counter' = 0
        /\ pc' = "write"
        /\ UNCHANGED resp
  /\ UNCHANGED <<cc, tx, raw, ledger0, hist, sumOut, lastAct, reqs, reqVars, pureVars>>

\* invoke, lines 253-261: validator.UnmarshallAndVerify, translator.New.
\* The validator is an interface; the list of actions it returns is not
\* constrained by the chaincode, so the model draws action i when the loop
\* reaches it and ends the list when invoke_commit is taken.
invoke_verify ==
  /\ pc = "verify"
  /\ \/ /\ pc' = "done"
        /\ resp' = Error(ErrVerify)
        /\ UNCHANGED <<i, counter>>
     \/ /\ i' = 0
        /\ counter' = 0
        /\ pc' = "write"
        /\ UNCHANGED resp
  /\ UNCHANGED <<ledger, cc, tx, raw, ledger0, hist, sumOut, lastAct, reqs, reqVars, pureVars>>

ActKind(action) ==
  IF action.kind = "transfer" /\ action.gh THEN "ghtransfer" ELSE action.kind

InputSet(action) == {action.inputs[j] : j \in 1..Len(action.inputs)}

\* the actions the bounds leave room for at the current counter
Room(c) == {a \in TokenActions : c + NumOutputs(a) <= MaxOutputs}

\* invoke, lines 262-267: one iteration of the loop over the verified actions
invoke_write ==
  /\ pc = "write"
  /\ i < MaxActions
  /\ \E action \in Room(counter) :
       LET w == Write(ledger, tx, counter, action)
       IN  /\ ledger' = w.rws
           /\ counter' = w.counter
           /\ lastAct' = ActKind(action)
           /\ everWritten' = everWritten \cup
                 {k \in TokenKeys : GetState(w.rws, k) # Nil}
           /\ UNCHANGED committed
           /\ IF w.err # NoErr
              THEN /\ pc' = "done"
                   /\ resp' = Error(w.err)
                   /\ UNCHANGED <<i, spent, snUses, sumOut>>
              ELSE /\ i' = i + 1
                   /\ sumOut' = sumOut + NumOutputs(action)
                   /\ spent' = IF ActKind(action) = "transfer"
                               THEN spent \cup InputSet(action) ELSE spent
                   /\ snUses' = IF ActKind(action) = "ghtransfer"
                                THEN [k \in SerialKeys |->
                                        IF k \in InputSet(action)
                                        THEN snUses[k] + 1 ELSE snUses[k]]
                                ELSE snUses
                   /\ UNCHANGED <<pc, resp>>
  /\ UNCHANGED <<cc, tx, raw, ledger0, reqs, reqVars, pureVars>>

\* invoke, lines 268-272: w.CommitTokenRequest(raw)
invoke_commit ==
  /\ pc = "write"
  /\ LET c == CommitTokenRequest(ledger, tx, RawBytes(raw))
     IN  /\ ledger' = c.rws
         /\ resp' = IF c.err # NoErr THEN Error(c.err) ELSE Success
         /\ committed' = IF c.err = NoErr /\ committed[tx] = 0
                         THEN [committed EXCEPT ![tx] = raw] ELSE committed
  /\ pc' = "done"
  /\ UNCHANGED <<cc, tx, raw, counter, i, ledger0, spent, snUses, everWritten,
                 sumOut, lastAct, reqs, reqVars, pureVars>>

\* the response goes back to the peer; the chaincode is ready for the next call
invoke_return ==
  /\ pc = "done"
  /\ pc' = "idle"
  /\ tx' = NoTx
  /\ raw' = 0
  /\ counter' = 0
  /\ i' = 0
  /\ resp' = NoResp
  /\ ledger0' = EmptyRWSet
  /\ sumOut' = 0
  /\ lastAct' = "none"
  /\ UNCHANGED <<ledger, cc, hist, reqs, reqVars, pureVars>>

Next ==
  \/ TokenChaincode_Init
  \/ invoke_validator
  \/ invoke_verify
  \/ invoke_write
  \/ invoke_commit
  \/ invoke_return

\* ------------------------------------------------------------------------
\* Properties of the chaincode and the translator
\* ------------------------------------------------------------------------
NonGHTransfers(c) == {a \in Room(c) : ActKind(a) = "transfer"}
GHTransfers(c) == {a \in Room(c) : ActKind(a) = "ghtransfer"}

HasEmptyInput(rw, a) == \E k \in InputSet(a) : len(GetState(rw, k)) = 0
HasUsedInput(rw, a) == \E k \in InputSet(a) : len(GetState(rw, k)) # 0

\* C1: a transfer that is not graph hiding is rejected with "input is
\* already spent" and writes nothing whenever one of its input keys holds no
\* value, and also whenever one of its input keys was consumed by an earlier
\* written transfer.
C1_SpentInputRejected ==
  pc = "write" =>
    \A a \in NonGHTransfers(counter) :
      (HasEmptyInput(ledger, a) \/ InputSet(a) \cap spent # {}) =>
        LET w == Write(ledger, tx, counter, a)
        IN  w.err = ErrSpent /\ w.rws = ledger

\* C2: a graph-hiding transfer is rejected whenever one of its serial keys
\* holds a value; an accepted one leaves every input key holding a marker and
\* deletes no key; no serial key is accepted by two written transfers.
C2_NullifierOnce ==
  /\ \A k \in SerialKeys : snUses[k] <= 1
  /\ pc = "write" =>
       \A a \in GHTransfers(counter) :
         LET w == Write(ledger, tx, counter, a)
         IN  /\ HasUsedInput(ledger, a) => (w.err # NoErr /\ w.rws = ledger)
             /\ w.err = NoErr =>
                  /\ \A k \in InputSet(a) : len(GetState(w.rws, k)) # 0
                  /\ \A k \in Keys :
                       GetState(ledger, k) # Nil => GetState(w.rws, k) # Nil

C2_Witness ==
  /\ pc = "done"
  /\ lastAct = "ghtransfer"
  /\ resp = Error(ErrSpent)
  /\ \E k \in SerialKeys : snUses[k] = 1 /\ GetState(ledger, k) = FormatBoolTrue

\* the output keys an action would write at the current counter
OutputKeys(txID, c, a) ==
  {CreateTokenKey(txID, c + x) : x \in {y \in 0..(NumOutputs(a) - 1) : ~IsRedeemAt(a, y)}}

HasExistingOutput(rw, txID, c, a) ==
  \E k \in OutputKeys(txID, c, a) : len(GetState(rw, k)) # 0

InputCheckFails(rw, a) ==
  \/ ActKind(a) = "transfer" /\ HasEmptyInput(rw, a)
  \/ ActKind(a) = "ghtransfer" /\ HasUsedInput(rw, a)

C4_AllOrNothing ==
  (pc = "done" /\ resp.status = "error") => ledger = ledger0

\* C5: no write or delete happens before the validator has verified the
\* request; an invocation that fails to load the validator or to verify the
\* request ends with an error and the ledger as it was.
C5_NoWriteBeforeVerify ==
  /\ pc = "verify" => ledger = ledger0
  /\ (pc = "write" /\ i = 0) => ledger = ledger0
  /\ (pc = "done" /\ resp.msg \in {ErrNotInitialized, ErrFactory, ErrVerify}) =>
       /\ resp.status = "error"
       /\ ledger = ledger0
  /\ (pc = "done" /\ ledger # ledger0) => lastAct # "none" \/ resp = Success

C5_Witness ==
  /\ pc = "done"
  /\ resp = Error(ErrVerify)
  /\ \E k \in TokenKeys : GetState(ledger, k) # Nil

\* C6: the request key of an anchor keeps the raw request first stored under
\* it; CommitTokenRequest for an anchor whose key holds a value fails with
\* "token request with same ID already exists" and changes nothing, and it
\* stores the request when the key holds nothing.
C6_RequestStoredOnce ==
  /\ \A t \in TxIDs :
       committed[t] # 0 =>
         GetState(ledger, CreateTokenRequestKey(t)) = RawBytes(committed[t])
  /\ pc = "write" =>
       \A r \in 1..(MaxRaw + 1) :
         LET c == CommitTokenRequest(ledger, tx, RawBytes(r))
             key == CreateTokenRequestKey(tx)
         IN  IF GetState(ledger, key) # Nil
             THEN c.err = ErrSameID /\ c.rws = ledger
             ELSE c.err = NoErr /\ GetState(c.rws, key) = RawBytes(r)

C6_Witness ==
  /\ pc = "done"
  /\ resp = Error(ErrSameID)
  /\ committed[tx] # 0
  /\ \E k \in TokenKeys : k \in spent

\* C7: the running counter starts at 0, equals the number of outputs of the
\* actions written so far, and a written action stores output j under the
\* key for (TxID, counter + j) and advances the counter by its output count;
\* keys below the counter are left to the earlier actions.
C7_RunningCounter ==
  pc = "write" =>
    /\ counter = sumOut
    /\ i = 0 => counter = 0
    /\ \A a \in Room(counter) :
         LET w == Write(ledger, tx, counter, a)
         IN  w.err = NoErr =>
               /\ w.counter = counter + NumOutputs(a)
               /\ \A x \in 0..(NumOutputs(a) - 1) :
                    ~IsRedeemAt(a, x) =>
                      GetState(w.rws, CreateTokenKey(tx, counter + x))
                        = SerializeOutputAt(a, x)
               /\ \A x \in Indices :
                    (x < counter /\ CreateTokenKey(tx, x) \notin InputSet(a)) =>
                      GetState(w.rws, CreateTokenKey(tx, x))
                        = GetState(ledger, CreateTokenKey(tx, x))

C7_Witness ==
  /\ pc = "write"
  /\ i = 2
  /\ counter = 2
  /\ lastAct = "transfer"
  /\ GetState(ledger, CreateTokenKey(tx, 1)) = OutputBytes
  /\ ledger.md[CreateTokenKey(tx, 1)] = ActionTransfer
  /\ ledger.md[CreateTokenKey(tx, 0)] = ActionIssue

\* C8: a token key that was once written with a value changes afterwards
\* only by being deleted.
C8_NeverRewritten ==
  [][\A k \in TokenKeys :
       (k \in everWritten /\ GetState(ledger', k) # GetState(ledger, k)) =>
         GetState(ledger', k) = Nil]_vars

\* ------------------------------------------------------------------------
\* Request (token request assembly): Transfer, Redeem, prepareTransfer
\* ------------------------------------------------------------------------
\* tokens the vault may hold
MaxTokens == 2
\* largest quantity of a vault token
MaxQuantity == 2
\* output values one Transfer call asks for
MaxValues == 2
\* uint64 scaled down: values are 0..UInt64Mod-1 and sums wrap at UInt64Mod
UInt64Mod == 3
\* transfer actions one request collects
MaxTransfers == 1
\* issue actions one request collects
MaxIssues == 1

TokenIDs == 1..MaxTokens
TokenTypes == {"A", "B"}
UInt64 == 0..(UInt64Mod - 1)
\* view.Identity: the empty identity is none
NoIdentity == ""
Identities == {NoIdentity, "bob"}
IsNone(identity) == identity = NoIdentity
NoToken == [Type |-> "", Quantity |-> 0]
VaultTokens == [Type : TokenTypes, Quantity : 1..MaxQuantity]

\* a nil token2.Quantity
NilQuantity == -1

ErrRecipientsNil == "all recipients must be nil"
ErrRecipientsDefined == "all recipients should be defined"
ErrQuery == "failed querying tokens ids"
ErrSameType == "tokens must have the same type"
ErrParsing == "failed parsing passed input tokens"
ErrCertifying == "failed certifiying inputs"
ErrSelecting == "failed selecting tokens"
ErrPreparing == "failed preparing transfer"
ErrCreating == "failed creating transfer action"
ErrChecking == "failed checking generated proof"

\* github.com/pkg/errors: WithMessagef(nil, ...) is nil
WithMessagef(err, msg) == IF err = NoErr THEN NoErr ELSE msg
Wrap(err, msg) == IF err = NoErr THEN NoErr ELSE msg

\* QueryEngine.GetTokens: fails when one of the ids is not in the vault
GetTokens(v, inputs) ==
  IF \E j \in 1..Len(inputs) : v[inputs[j]] = NoToken
  THEN [tokens |-> <<>>, err |-> "token not found"]
  ELSE [tokens |-> [j \in 1..Len(inputs) |-> v[inputs[j]]], err |-> NoErr]

\* the loop of parseInputIDs over inputTokens, from position j on; err is the
\* error variable of the enclosing function (the result of GetTokens)
RECURSIVE parseInputTokens(_, _, _, _, _, _)
parseInputTokens(inputs, inputTokens, j, typ, sum, err) ==
  IF j > Len(inputTokens)
  THEN [ids |-> inputs, sum |-> sum, typ |-> typ, err |-> NoErr]
  ELSE LET tok == inputTokens[j]
           typ1 == IF Len(typ) = 0 THEN tok.Type ELSE typ
       IN  IF typ1 # tok.Type
           THEN [ids |-> <<>>, sum |-> NilQuantity, typ |-> "",
                 err |-> WithMessagef(err, ErrSameType)]
           ELSE parseInputTokens(inputs, inputTokens, j + 1, typ1,
                                 sum + tok.Quantity, err)

parseInputIDs(v, inputs) ==
  LET g == GetTokens(v, inputs)
  IN  IF g.err # NoErr
      THEN [ids |-> <<>>, sum |-> NilQuantity, typ |-> "",
            err |-> WithMessagef(g.err, ErrQuery)]
      ELSE parseInputTokens(inputs, g.tokens, 1, "", 0, g.err)

\* Selector.Select with every matching token lockable and certified: take
\* vault tokens of the type in order until the target is reached
RECURSIVE selectFrom(_, _, _, _, _, _)
selectFrom(v, id, target, tokenType, toBeSpent, sum) ==
  IF id > MaxTokens THEN [ids |-> toBeSpent, sum |-> sum]
  ELSE IF v[id] = NoToken \/ v[id].Type # tokenType
       THEN selectFrom(v, id + 1, target, tokenType, toBeSpent, sum)
       ELSE LET sum1 == sum + v[id].Quantity
                spent1 == Append(toBeSpent, id)
            IN  IF target <= sum1 THEN [ids |-> spent1, sum |-> sum1]
                ELSE selectFrom(v, id + 1, target, tokenType, spent1, sum1)

\* selOK: whether locking, certification and the final existence check pass
Select(v, target, tokenType, selOK) ==
  LET s == selectFrom(v, 1, target, tokenType, <<>>, 0)
  IN  IF selOK /\ target <= s.sum
      THEN [ids |-> s.ids, sum |-> s.sum, err |-> NoErr]
      ELSE [ids |-> <<>>, sum |-> NilQuantity, err |-> "token selection failed"]

\* the owner loop of prepareTransfer
RECURSIVE checkOwners(_, _, _)
checkOwners(redeem, owners, j) ==
  IF j > Len(owners) THEN NoErr
  ELSE IF redeem /\ ~IsNone(owners[j]) THEN ErrRecipientsNil
  ELSE IF ~redeem /\ IsNone(owners[j]) THEN ErrRecipientsDefined
  ELSE checkOwners(redeem, owners, j + 1)

\* outputSum += value on a uint64
RECURSIVE uint64Sum(_, _)
uint64Sum(values, j) ==
  IF j = 0 THEN 0 ELSE (uint64Sum(values, j - 1) + values[j]) % UInt64Mod

\* the arithmetic sum of the requested values
RECURSIVE SumValues(_, _)
SumValues(values, j) ==
  IF j = 0 THEN 0 ELSE SumValues(values, j - 1) + values[j]

RECURSIVE SumQuantity(_, _)
SumQuantity(tokens, j) ==
  IF j = 0 THEN 0 ELSE SumQuantity(tokens, j - 1) + tokens[j].Quantity

PrepareResult(err, panic, ids, inputSum, outputs, calls) ==
  [err |-> err, panic |-> panic, tokenIDs |-> ids, inputSum |-> inputSum,
   outputTokens |-> outputs, calls |-> calls]

\* variant: the owners are not looked at
prepareTransfer_ownersUnchecked(v, redeem, typ, values, owners, tokenIDs, certOK, selOK) ==
  LET ownerErr == NoErr
      parsed == IF Len(tokenIDs) # 0 THEN parseInputIDs(v, tokenIDs)
                ELSE [ids |-> <<>>, sum |-> NilQuantity, typ |-> typ, err |-> NoErr]
      typ1 == parsed.typ
      outputSum == uint64Sum(values, Len(values))
      outputTokens == [j \in 1..Len(values) |->
                         [Owner |-> owners[j], Type |-> typ1, Quantity |-> values[j]]]
      sel == IF Len(tokenIDs) = 0 THEN Select(v, outputSum, typ1, selOK)
             ELSE [ids |-> parsed.ids, sum |-> parsed.sum, err |-> NoErr]
      inputSum == sel.sum
      \* the collaborators called on the way to the inputs
      calls == IF Len(tokenIDs) = 0 THEN <<"Select">>
               ELSE <<"GetTokens", "RequestCertification">>
  IN  IF ownerErr # NoErr
      THEN PrepareResult(ownerErr, FALSE, <<>>, NilQuantity, <<>>, <<>>)
      ELSE IF parsed.err # NoErr
      THEN PrepareResult(Wrap(parsed.err, ErrParsing), FALSE, <<>>, NilQuantity,
                         <<>>, <<"GetTokens">>)
      ELSE IF Len(tokenIDs) # 0 /\ ~certOK
      THEN PrepareResult(ErrCertifying, FALSE, <<>>, NilQuantity, <<>>, calls)
      ELSE IF sel.err # NoErr
      THEN PrepareResult(Wrap(sel.err, ErrSelecting), FALSE, <<>>, NilQuantity,
                         <<>>, calls)
      \* inputSum.Cmp on a nil Quantity
      ELSE IF inputSum = NilQuantity
      THEN PrepareResult(NoErr, TRUE, <<>>, NilQuantity, <<>>, calls)
      ELSE IF inputSum > outputSum
      THEN PrepareResult(NoErr, FALSE, sel.ids, inputSum,
             Append(outputTokens, [Owner |-> "alice", Type |-> typ1,
                                   Quantity |-> inputSum - outputSum]), calls)
      ELSE PrepareResult(NoErr, FALSE, sel.ids, inputSum, outputTokens, calls)

\* Request.prepareTransfer. tokenIDs: the WithTokenIDs option (empty when not
\* given); certOK, selOK: outcome of RequestCertification and of the selector.
prepareTransfer(v, redeem, typ, values, owners, tokenIDs, certOK, selOK) ==
  LET ownerErr == checkOwners(redeem, owners, 1)
      parsed == IF Len(tokenIDs) # 0 THEN parseInputIDs(v, tokenIDs)
                ELSE [ids |-> <<>>, sum |-> NilQuantity, typ |-> typ, err |-> NoErr]
      typ1 == parsed.typ
      outputSum == uint64Sum(values, Len(values))
      outputTokens == [j \in 1..Len(values) |->
                         [Owner |-> owners[j], Type |-> typ1, Quantity |-> values[j]]]
      sel == IF Len(tokenIDs) = 0 THEN Select(v, outputSum, typ1, selOK)
             ELSE [ids |-> parsed.ids, sum |-> parsed.sum, err |-> NoErr]
      inputSum == sel.sum
      \* the collaborators called on the way to the inputs
      calls == IF Len(tokenIDs) = 0 THEN <<"Select">>
               ELSE <<"GetTokens", "RequestCertification">>
  IN  IF ownerErr # NoErr
      THEN PrepareResult(ownerErr, FALSE, <<>>, NilQuantity, <<>>, <<>>)
      ELSE IF parsed.err # NoErr
      THEN PrepareResult(Wrap(parsed.err, ErrParsing), FALSE, <<>>, NilQuantity,
                         <<>>, <<"GetTokens">>)
      ELSE IF Len(tokenIDs) # 0 /\ ~certOK
      THEN PrepareResult(ErrCertifying, FALSE, <<>>, NilQuantity, <<>>, calls)
      ELSE IF sel.err # NoErr
      THEN PrepareResult(Wrap(sel.err, ErrSelecting), FALSE, <<>>, NilQuantity,
                         <<>>, calls)
      \* inputSum.Cmp on a nil Quantity
      ELSE IF inputSum = NilQuantity
      THEN PrepareResult(NoErr, TRUE, <<>>, NilQuantity, <<>>, calls)
      ELSE IF inputSum > outputSum
      THEN PrepareResult(NoErr, FALSE, sel.ids, inputSum,
             Append(outputTokens, [Owner |-> "alice", Type |-> typ1,
                                   Quantity |-> inputSum - outputSum]), calls)
      ELSE PrepareResult(NoErr, FALSE, sel.ids, inputSum, outputTokens, calls)

\* tms.Transfer (action assembly): refuses inputs and outputs of different
\* sums or types before proving
tmsTransfer(v, ids, outputTokens) ==
  LET g == GetTokens(v, ids)
      inSum == SumQuantity(g.tokens, Len(g.tokens))
      outSum == SumQuantity(outputTokens, Len(outputTokens))
  IN  IF \/ g.err # NoErr
         \/ inSum # outSum
         \/ \E j \in 1..Len(g.tokens), k \in 1..Len(outputTokens) :
              g.tokens[j].Type # outputTokens[k].Type
      THEN [err |-> "invalid transfer", action |-> <<>>]
      ELSE [err |-> NoErr, action |-> <<ids, outputTokens>>]

Faults == {"none", "certification", "selector", "verify"}

NewRequest ==
  [Issues |-> <<>>, MetaIssues |-> <<>>, Transfers |-> <<>>, MetaTransfers |-> <<>>]

NoOutcome ==
  [call |-> "none", status |-> "none", transferCalled |-> FALSE,
   handedIn |-> 0, handedOut |-> 0, mixed |-> FALSE, parseErr |-> "not called",
   verified |-> FALSE, appended |-> FALSE, ownersOK |-> TRUE, calls |-> <<>>,
   outputSum |-> 0, requested |-> 0]

\* the token ids name vault tokens that do not all have the same type
MixedTypes(v, tokenIDs) ==
  /\ \A j \in 1..Len(tokenIDs) : v[tokenIDs[j]] # NoToken
  /\ \E j, k \in 1..Len(tokenIDs) : v[tokenIDs[j]].Type # v[tokenIDs[k]].Type

\* the body Request.Transfer and Request.Redeem share: prepareTransfer,
\* ts.Transfer, ts.VerifyTransfer, append
\* fault: the collaborator that fails in this call, if any; each failure
\* returns at once, so only the first one matters
transferOrRedeem(call, redeem, typ, values, owners, tokenIDs, fault) ==
  LET p == prepareTransfer(vault, redeem, typ, values, owners, tokenIDs,
                           fault # "certification", fault # "selector")
      t == tmsTransfer(vault, p.tokenIDs, p.outputTokens)
      o == [NoOutcome EXCEPT
              !.call = call,
              !.ownersOK = \A j \in 1..Len(owners) : IsNone(owners[j]) = redeem,
              !.calls = p.calls,
              !.mixed = MixedTypes(vault, tokenIDs),
              !.parseErr = IF Len(tokenIDs) # 0
                              /\ checkOwners(redeem, owners, 1) = NoErr
                           THEN parseInputIDs(vault, tokenIDs).err
                           ELSE "not called"]
      called == [o EXCEPT !.transferCalled = TRUE,
                          !.outputSum = uint64Sum(values, Len(values)),
                          !.requested = SumValues(values, Len(values)),
                          !.handedIn = p.inputSum,
                          !.handedOut = SumQuantity(p.outputTokens, Len(p.outputTokens))]
  IN  IF p.panic
      THEN out' = [o EXCEPT !.status = "panic"] /\ UNCHANGED req
      ELSE IF p.err # NoErr
      THEN /\ out' = [o EXCEPT !.status = "error"]
           /\ UNCHANGED req
      ELSE IF t.err # NoErr
      THEN /\ out' = [called EXCEPT !.status = "error"]
           /\ UNCHANGED req
      ELSE IF fault = "verify"
      THEN /\ out' = [called EXCEPT !.status = "error"]
           /\ UNCHANGED req
      ELSE /\ out' = [called EXCEPT !.status = "ok", !.verified = TRUE,
                                    !.appended = TRUE]
           /\ req' = [req EXCEPT
                        !.Transfers = Append(req.Transfers, t.action),
                        !.MetaTransfers = Append(req.MetaTransfers, p.outputTokens)]

\* the steps of Request.Issue that can fail, in the order of the code
IssueFaults == {"none", "identity", "issue", "serialize", "outputs", "auditinfo"}

\* Request.Issue. valid: whether the action tms.Issue produced would pass
\* VerifyIssue against its token infos.
Request_Issue ==
  /\ out = NoOutcome
  /\ Len(req.Issues) < MaxIssues
  /\ \E receiver \in Identities, typ \in TokenTypes, q \in UInt64,
        fault \in IssueFaults, valid \in BOOLEAN :
       LET o == [NoOutcome EXCEPT !.call = "Issue",
                                  !.ownersOK = ~IsNone(receiver),
                                  !.calls = IF IsNone(receiver) THEN <<>>
                                            ELSE <<"GetIssuerIdentity">>]
           \* the serialized action; its bytes matter here only through whether
           \* they verify
           issue == [kind |-> "issue", valid |-> valid]
           r1 == [req EXCEPT !.Issues = Append(req.Issues, issue)]
       IN  IF IsNone(receiver) \/ fault \in {"identity", "issue", "serialize"}
           THEN out' = [o EXCEPT !.status = "error"] /\ UNCHANGED req
           ELSE IF fault \in {"outputs", "auditinfo"}
           THEN /\ out' = [o EXCEPT !.status = "error", !.appended = TRUE]
                /\ req' = r1
           ELSE /\ out' = [o EXCEPT !.status = "ok", !.appended = TRUE]
                /\ req' = [r1 EXCEPT !.MetaIssues =
                             Append(req.MetaIssues, <<receiver>>)]
  /\ UNCHANGED <<vault, ccVars, pureVars>>

Request_Transfer ==
  /\ out = NoOutcome
  /\ Len(req.Transfers) < MaxTransfers
  /\ \E typ \in TokenTypes, m \in 1..MaxValues, fault \in Faults :
       \E values \in [1..m -> UInt64], owners \in [1..m -> Identities],
          tokenIDs \in SeqsUpTo(TokenIDs, 0, MaxTokens) :
         transferOrRedeem("Transfer", FALSE, typ, values, owners, tokenIDs,
                          fault)
  /\ UNCHANGED <<vault, ccVars, pureVars>>

Request_Redeem ==
  /\ out = NoOutcome
  /\ Len(req.Transfers) < MaxTransfers
  /\ \E typ \in TokenTypes, value \in UInt64, fault \in Faults :
       \E tokenIDs \in SeqsUpTo(TokenIDs, 0, MaxTokens) :
         transferOrRedeem("Redeem", TRUE, typ, <<value>>, <<NoIdentity>>, tokenIDs,
                          fault)
  /\ UNCHANGED <<vault, ccVars, pureVars>>

\* the requests handed to Import: an empty one and one that holds an issue
\* action with its metadata
ImportedRequests ==
  {NewRequest,
   [NewRequest EXCEPT !.Issues = <<[kind |-> "issue", valid |-> TRUE]>>,
                      !.MetaIssues = <<<<"bob">>>>]}

\* Request.Import: the four lists of the other request are appended
Request_Import ==
  /\ out = NoOutcome
  /\ \E request \in ImportedRequests :
       /\ Len(req.Issues) + Len(request.Issues) <= MaxIssues
       /\ req' = [Issues |-> req.Issues \o request.Issues,
                  Transfers |-> req.Transfers \o request.Transfers,
                  MetaIssues |-> req.MetaIssues \o request.MetaIssues,
                  MetaTransfers |-> req.MetaTransfers \o request.MetaTransfers]
       /\ out' = [NoOutcome EXCEPT !.call = "Import", !.status = "ok"]
  /\ UNCHANGED <<vault, ccVars, pureVars>>

\* the caller takes the result of the call; a panic is not returned from
Request_return ==
  /\ out.status \in {"ok", "error"}
  /\ out' = NoOutcome
  /\ UNCHANGED <<vault, req, ccVars, pureVars>>

ReqIdle ==
  /\ vault = [id \in TokenIDs |-> NoToken]
  /\ req = NewRequest
  /\ out = NoOutcome

NextReq ==
  \/ Request_Issue
  \/ Request_Transfer
  \/ Request_Redeem
  \/ Request_Import
  \/ Request_return

\* ------------------------------------------------------------------------
\* Signatures over the token actions and their anchor
\* ------------------------------------------------------------------------
\* the bytes of a TxID
AnchorBytes(txID) == <<txID>>

\* json.Marshal(&TokenRequest{Issues, Transfers}); issues, transfers: the
\* number of serialized actions of each kind
MarshallToSign(issues, transfers) ==
  <<"{">> \o [j \in 1..issues |-> "issue"] \o <<",">>
         \o [j \in 1..transfers |-> "transfer"] \o <<"}">>

\* variant: the anchor is not appended
AppendAnchor_dropped(bytes, txID) == bytes

\* append(bytes, []byte(t.TxID)...)
AppendAnchor(bytes, txID) == bytes \o AnchorBytes(txID)

MarshallToAudit(issues, transfers, txID) ==
  AppendAnchor(MarshallToSign(issues, transfers), txID)

\* the requests of the validator tests: one issue, one transfer, or both
Payloads == {MarshallToSign(x, y) : x \in 0..1, y \in 0..1} \ {MarshallToSign(0, 0)}

Signers == {"issuer", "sender"}
NoSignature == <<"none", <<>>>>

\* a signature is valid for the signer and the message it was made over, and
\* for nothing else
SignTokenActions(signer, bytes, txID) == <<signer, AppendAnchor(bytes, txID)>>

VerifySignature(signer, message, sigma) == sigma = <<signer, message>>

\* the signature checks of the validator: every signer's signature must
\* verify over the token actions and the anchor the validator was given
VerifyTokenRequestFromRaw(r, binding) ==
  IF \A signer \in Signers :
       VerifySignature(signer, AppendAnchor(r.raw, binding), r.Signatures[signer])
  THEN "accepted" ELSE "rejected"

SignedIdle ==
  signed = [raw |-> MarshallToSign(1, 1),
            Signatures |-> [signer \in Signers |-> NoSignature],
            binding |-> NoTx, result |-> "none"]

InitSigned ==
  \E raw0 \in Payloads :
    signed = [raw |-> raw0,
              Signatures |-> [signer \in Signers |-> NoSignature],
              binding |-> NoTx, result |-> "none"]

\* a signer signs some token actions for some anchor; the signature is put
\* into the request
Signed_Sign ==
  /\ signed.result = "none"
  /\ \E signer \in Signers, raw0 \in Payloads, txID \in TxIDs :
       signed' = [signed EXCEPT
                    !.Signatures[signer] = SignTokenActions(signer, raw0, txID)]
  /\ UNCHANGED <<ccVars, reqVars, listed, rp, sg, an, ex, svcVars>>

Signed_Verify ==
  /\ signed.result = "none"
  /\ \E binding \in TxIDs :
       signed' = [signed EXCEPT
                    !.binding = binding,
                    !.result = VerifyTokenRequestFromRaw(signed, binding)]
  /\ UNCHANGED <<ccVars, reqVars, listed, rp, sg, an, ex, svcVars>>

NextSigned ==
  \/ Signed_Sign
  \/ Signed_Verify

\* ------------------------------------------------------------------------
\* TokenChaincode.invoke over the list of actions the validator returns
\* ------------------------------------------------------------------------
ListedIssues == {a \in IssueActions : NumOutputs(a) = 1}

ListedTransfers ==
  {a \in TransferActions :
     /\ NumOutputs(a) = 1
     /\ Len(a.inputs) = 1
     /\ a.inputs[1] \in {CreateTokenKey(1, 0), SerialKey(1)}}

\* api.TokenRequest: Issues and Transfers
ListedRequests ==
  {r \in [Issues : SeqsUpTo(ListedIssues, 0, MaxActions),
          Transfers : SeqsUpTo(ListedTransfers, 0, MaxActions)] :
     /\ Len(r.Issues) + Len(r.Transfers) <= MaxOutputs
     /\ Len(r.Issues) + Len(r.Transfers) <= MaxActions}

\* Validator.UnmarshallAndVerify on success: the verified issue actions in
\* the request's order, then the verified transfer actions in its order
UnmarshallAndVerify(request) == request.Issues \o request.Transfers

NoRequest == [Issues |-> <<>>, Transfers |-> <<>>]

ListedIdle == listed = [request |-> NoRequest, actions |-> <<>>, written |-> <<>>]

InitListed ==
  /\ InitCC
  /\ ListedIdle

\* variant: the loop takes the actions from the end of the list
listed_write_reversed ==
  /\ pc = "write"
  /\ i < Len(listed.actions)
  /\ LET action == listed.actions[Len(listed.actions) - i]
         w == Write(ledger, tx, counter, action)
     IN  /\ ledger' = w.rws
         /\ counter' = w.counter
         /\ listed' = [listed EXCEPT !.written = Append(listed.written, action)]
         /\ IF w.err # NoErr
            THEN pc' = "done" /\ resp' = Error(w.err) /\ UNCHANGED i
            ELSE i' = i + 1 /\ UNCHANGED <<pc, resp>>
  /\ UNCHANGED <<cc, tx, raw, ledger0, hist, sumOut, lastAct, reqs, reqVars, signed, rp, sg, an, ex, svcVars>>

\* invoke, lines 247-261: load the validator, verify the request, create the
\* translator
listed_verify ==
  /\ pc = "idle"
  /\ reqs < MaxRequests
  /\ \E t \in TxIDs, r \in Raws, request \in ListedRequests, verifyOK \in BOOLEAN :
       LET x == init(cc, ledger, TRUE)
       IN  /\ tx' = t
           /\ raw' = r
           /\ ledger0' = ledger
           /\ reqs' = reqs + 1
           /\ cc' = x.cc
           /\ i' = 0
           /\ counter' = 0
           /\ IF x.err # NoErr
              THEN /\ pc' = "done" /\ resp' = Error(x.err)
                   /\ listed' = [request |-> request, actions |-> <<>>, written |-> <<>>]
              ELSE IF ~verifyOK
              THEN /\ pc' = "done" /\ resp' = Error(ErrVerify)
                   /\ listed' = [request |-> request, actions |-> <<>>, written |-> <<>>]
              ELSE /\ pc' = "write" /\ resp' = NoResp
                   /\ listed' = [request |-> request,
                                 actions |-> UnmarshallAndVerify(request),
                                 written |-> <<>>]
  /\ UNCHANGED <<ledger, hist, sumOut, lastAct, reqVars, signed, rp, sg, an, ex, svcVars>>

\* invoke, lines 262-267: for _, action := range actions { w.Write(action) }
listed_write ==
  /\ pc = "write"
  /\ i < Len(listed.actions)
  /\ LET action == listed.actions[i + 1]
         w == Write(ledger, tx, counter, action)
     IN  /\ ledger' = w.rws
         /\ counter' = w.counter
         /\ listed' = [listed EXCEPT !.written = Append(listed.written, action)]
         /\ IF w.err # NoErr
            THEN pc' = "done" /\ resp' = Error(w.err) /\ UNCHANGED i
            ELSE i' = i + 1 /\ UNCHANGED <<pc, resp>>
  /\ UNCHANGED <<cc, tx, raw, ledger0, hist, sumOut, lastAct, reqs, reqVars, signed, rp, sg, an, ex, svcVars>>

\* invoke, lines 268-272: after the loop, w.CommitTokenRequest(raw)
listed_commit ==
  /\ pc = "write"
  /\ i = Len(listed.actions)
  /\ LET c == CommitTokenRequest(ledger, tx, RawBytes(raw))
     IN  /\ ledger' = c.rws
         /\ resp' = IF c.err # NoErr THEN Error(c.err) ELSE Success
  /\ pc' = "done"
  /\ UNCHANGED <<cc, tx, raw, counter, i, ledger0, hist, sumOut, lastAct, reqs,
                 reqVars, pureVars>>

listed_return ==
  /\ pc = "done"
  /\ pc' = "idle"
  /\ tx' = NoTx
  /\ raw' = 0
  /\ counter' = 0
  /\ i' = 0
  /\ resp' = NoResp
  /\ ledger0' = EmptyRWSet
  /\ listed' = [request |-> NoRequest, actions |-> <<>>, written |-> <<>>]
  /\ UNCHANGED <<ledger, cc, hist, sumOut, lastAct, reqs, reqVars, signed, rp, sg, an, ex, svcVars>>

NextListed ==
  \/ TokenChaincode_Init
  \/ listed_verify
  \/ listed_write
  \/ listed_commit
  \/ listed_return

\* ------------------------------------------------------------------------
\* rangeproof: Prover.Prove, Verifier.Verify
\* ------------------------------------------------------------------------
\* largest Base (number of signatures) and Exponent of a range proof
MaxBase == 3
MaxExponent == 3
\* tokens one range proof covers
MaxRangeTokens == 2
\* largest token value
MaxRangeValue == 10
\* bn256.Order scaled down: Zr is 0..Order-1
Order == 13
\* bits of the mantissa of a float64, scaled down from 53
FloatMantissa == 3
\* seeds of the random number generator
MaxSeed == 2

Zr == 0..(Order - 1)

RECURSIVE IntPow(_, _)
IntPow(b, e) == IF e = 0 THEN 1 ELSE b * IntPow(b, e - 1)

RECURSIVE BitLen(_)
BitLen(n) == IF n = 0 THEN 0 ELSE 1 + BitLen(n \div 2)

\* float64(n) for an integer n >= 0: round to nearest, ties to even
Float64(n) ==
  IF BitLen(n) <= FloatMantissa THEN n
  ELSE LET unit == IntPow(2, BitLen(n) - FloatMantissa)
           q == n \div unit
           r == n % unit
       IN  IF 2 * r > unit \/ (2 * r = unit /\ q % 2 = 1)
           THEN (q + 1) * unit ELSE q * unit

\* int64(math.Pow(float64(b), float64(e))), the power correctly rounded
Pow(b, e) == Float64(IntPow(b, e))

\* the loop of computeMembershipWitness that fills values[idx], idx from
\* Exponent-1 down to 1; values[0] was set before
RECURSIVE quotients(_, _, _, _)
quotients(v, base, idx, values) ==
  IF idx < 1 THEN values
  ELSE quotients(v % Pow(base, idx), base, idx - 1,
                 [values EXCEPT ![idx + 1] = v \div Pow(base, idx)])

\* values of computeMembershipWitness for one token; values[i+1] is digit i
membershipValues(v, base, exponent) ==
  quotients(v, base, exponent - 1,
            [j \in 1..exponent |-> IF j = 1 THEN v % base ELSE 0])

ErrRange == "can't compute range proof: value of token outside authorized range"

\* G1 as the exponents over PedersenParams[0..2]
G1Zero == <<0, 0, 0>>
G1Add(a, b) == [j \in 1..3 |-> (a[j] + b[j]) % Order]
G1Mul(a, z) == [j \in 1..3 |-> (a[j] * z) % Order]
G1Neg(a) == [j \in 1..3 |-> (Order - a[j]) % Order]
PedersenParams(j) == [x \in 1..3 |-> IF x = j + 1 THEN 1 ELSE 0]

\* bn256.RandModOrder: the n-th draw of the generator started with seed
RandModOrder(seed, n) == (seed * (n + 1) + n * n) % Order

\* common.ComputePedersenCommitment(opening, pp[:2])
ComputePedersenCommitment(opening) ==
  G1Add(G1Mul(PedersenParams(0), opening[1]), G1Mul(PedersenParams(1), opening[2]))

\* bn256.HashModOrder of a token type
HashModOrder(type) == IF type = "A" THEN 1 ELSE 2

\* the token of a witness: type, value and blinding factor over the three
\* Pedersen parameters
TokenOf(w) ==
  G1Add(G1Add(G1Mul(PedersenParams(0), HashModOrder(w.Type)),
              G1Mul(PedersenParams(1), w.Value)),
        G1Mul(PedersenParams(2), w.BlindingFactor))

\* the blinding factor of digit i of token k
digitBF(seed, exponent, k, d) == RandModOrder(seed, (k - 1) * exponent + d)

\* commitmentBlindingFactor[k]: sum of bf * Base^i
RECURSIVE sumBF(_, _, _, _, _)
sumBF(seed, base, exponent, k, d) ==
  IF d >= exponent THEN 0
  ELSE (digitBF(seed, exponent, k, d) * (Pow(base, d) % Order)
        + sumBF(seed, base, exponent, k, d + 1)) % Order

\* Prover.computeMembershipWitness over the tokens from k on. A digit that is
\* not an index of Signatures makes p.Signatures[values[i]] panic.
RECURSIVE computeMembershipWitness(_, _, _)
computeMembershipWitness(pr, k, acc) ==
  IF k > Len(pr.tokenWitness) THEN acc
  ELSE LET v == pr.tokenWitness[k].Value
           values == membershipValues(v, pr.Base, pr.Exponent)
       IN  IF v >= Pow(pr.Base, pr.Exponent)
           THEN [acc EXCEPT !.err = ErrRange]
           ELSE IF \E j \in 1..pr.Exponent : values[j] < 0 \/ values[j] >= pr.Base
           THEN [acc EXCEPT !.err = "panic", !.values = Append(acc.values, values)]
           ELSE computeMembershipWitness(pr, k + 1,
                  [acc EXCEPT
                     !.values = Append(acc.values, values),
                     !.coms = Append(acc.coms,
                        [j \in 1..pr.Exponent |->
                           ComputePedersenCommitment(
                             <<values[j], digitBF(pr.seed, pr.Exponent, k, j - 1)>>)]),
                     !.commitmentBlindingFactor =
                        Append(acc.commitmentBlindingFactor,
                               sumBF(pr.seed, pr.Base, pr.Exponent, k, 0))])

\* sha256 over the bytes of a sequence of G1 elements, as an element of Zr
RECURSIVE hashInts(_, _)
hashInts(xs, h) ==
  IF xs = <<>> THEN h ELSE hashInts(Tail(xs), (h * 3 + Head(xs) + 1) % Order)

RECURSIVE GetG1Array(_)
GetG1Array(gs) == IF gs = <<>> THEN <<>> ELSE Head(gs) \o GetG1Array(Tail(gs))

\* common.SchnorrProver.Prove: response = randomness + challenge * witness
SchnorrProve(challenge, randomness, witness) ==
  [j \in 1..Len(witness) |-> (randomness[j] + challenge * witness[j]) % Order]

\* common.SchnorrVerifier.RecomputeCommitment over PedParams[0..n-1]
RecomputeCommitment(statement, responses, challenge) ==
  LET sum[j \in 0..Len(responses)] ==
        IF j = 0 THEN G1Zero
        ELSE G1Add(sum[j - 1], G1Mul(PedersenParams(j - 1), responses[j]))
  IN  G1Add(sum[Len(responses)], G1Neg(G1Mul(statement, challenge)))

\* the challenge of one membership proof: over its statement and commitment
membershipChallenge(com, T) == hashInts(com \o T, 1)

\* sigproof.MembershipProver.Prove for a signed digit committed in com: the
\* proof of knowledge of section 4.2 with its own randomness and challenge
MembershipProve(digit, bf, com, r1, r2) ==
  LET T == ComputePedersenCommitment(<<r1, r2>>)
      c == membershipChallenge(com, T)
  IN  [Challenge |-> c, Proof |-> SchnorrProve(c, <<r1, r2>>, <<digit, bf>>)]

\* sigproof.MembershipVerifier.Verify
MembershipVerify(com, mp) ==
  membershipChallenge(com, RecomputeCommitment(com, mp.Proof, mp.Challenge))
    = mp.Challenge

NoRandomness == [Type |-> 0, Value |-> <<>>, CommitmentBlindingFactor |-> <<>>,
                 TokenBlindingFactor |-> <<>>]
NoCommitment == [Token |-> <<>>, CommitmentToValue |-> <<>>]
NoProof == [MembershipProofs |-> <<>>, Challenge |-> 0,
            EqualityProofs |-> [Type |-> 0, Value |-> <<>>,
                                TokenBlindingFactor |-> <<>>,
                                CommitmentBlindingFactor |-> <<>>]]

\* where the draws of Prove start in the stream of the generator
FirstMembershipDraw == MaxRangeTokens * MaxExponent
FirstCommitmentDraw == 3 * MaxRangeTokens * MaxExponent

\* Prover.computeCommitment and Verifier.computeChallenge
computeCommitment(pr) ==
  LET n == Len(pr.tokenWitness)
      rnd == [Type |-> RandModOrder(pr.seed, FirstCommitmentDraw),
              Value |-> [k \in 1..n |->
                 RandModOrder(pr.seed, FirstCommitmentDraw + 3 * k - 2)],
              CommitmentBlindingFactor |-> [k \in 1..n |->
                 RandModOrder(pr.seed, FirstCommitmentDraw + 3 * k - 1)],
              TokenBlindingFactor |-> [k \in 1..n |->
                 RandModOrder(pr.seed, FirstCommitmentDraw + 3 * k)]]
  IN  [pr EXCEPT
         !.randomness = rnd,
         !.Commitment =
            [Token |-> [k \in 1..n |->
               G1Add(G1Add(G1Mul(PedersenParams(0), rnd.Type),
                           G1Mul(PedersenParams(1), rnd.Value[k])),
                     G1Mul(PedersenParams(2), rnd.TokenBlindingFactor[k]))],
             CommitmentToValue |-> [k \in 1..n |->
               ComputePedersenCommitment(
                 <<rnd.Value[k], rnd.CommitmentBlindingFactor[k]>>)]]]

computeChallenge(Token, commitment, comToValue) ==
  hashInts(GetG1Array(Token) \o GetG1Array(commitment.Token)
             \o GetG1Array(commitment.CommitmentToValue)
             \o GetG1Array([k \in 1..Len(comToValue) |->
                              GetG1Array(comToValue[k])]), 1)

\* Verifier.recomputeCommitments
recomputeCommitments(Token, base, exponent, pf) ==
  LET eq == pf.EqualityProofs
      agg(j) ==
        LET sum[d \in 0..exponent] ==
              IF d = 0 THEN G1Zero
              ELSE G1Add(sum[d - 1],
                         G1Mul(pf.MembershipProofs[j].Commitments[d],
                               Pow(base, d - 1) % Order))
        IN  sum[exponent]
  IN  [Token |-> [j \in 1..Len(Token) |->
         RecomputeCommitment(Token[j],
           <<eq.Type, eq.Value[j], eq.TokenBlindingFactor[j]>>, pf.Challenge)],
       CommitmentToValue |-> [j \in 1..Len(Token) |->
         RecomputeCommitment(agg(j),
           <<eq.Value[j], eq.CommitmentBlindingFactor[j]>>, pf.Challenge)]]

ErrVerifyRange == "failed to verify range proof"

\* Verifier.Verify of a verifier built with NewVerifier(Token, base, exponent).
\* recomputeCommitments indexes EqualityProofs by token and Commitments by
\* digit without a look at their lengths: an index out of range panics, as
\* does a nil EqualityProofs.
Verify(Token, base, exponent, pf) ==
  IF Len(pf.MembershipProofs) # Len(Token) THEN ErrVerifyRange
  ELSE IF \E k \in 1..Len(Token) :
            Len(pf.MembershipProofs[k].Commitments)
              # Len(pf.MembershipProofs[k].SignatureProofs)
  THEN ErrVerifyRange
  ELSE IF \E k \in 1..Len(Token) :
            \E d \in 1..Len(pf.MembershipProofs[k].Commitments) :
              ~MembershipVerify(pf.MembershipProofs[k].Commitments[d],
                                pf.MembershipProofs[k].SignatureProofs[d])
  THEN ErrVerifyRange
  ELSE IF \/ Len(pf.EqualityProofs.Value) < Len(Token)
          \/ Len(pf.EqualityProofs.TokenBlindingFactor) < Len(Token)
          \/ Len(pf.EqualityProofs.CommitmentBlindingFactor) < Len(Token)
          \/ \E k \in 1..Len(Token) :
               Len(pf.MembershipProofs[k].Commitments) < exponent
  THEN "panic"
  ELSE IF computeChallenge(Token,
            recomputeCommitments(Token, base, exponent, pf),
            [k \in 1..Len(pf.MembershipProofs) |->
               pf.MembershipProofs[k].Commitments]) # pf.Challenge
  THEN ErrVerifyRange
  ELSE NoErr

TokenDataWitnesses ==
  [Type : TokenTypes, Value : 0..MaxRangeValue, BlindingFactor : {1}]

\* NewProver: Base is the number of signatures
NewProver(tw, exponent, base, seed) ==
  [tokenWitness |-> tw, Token |-> [k \in 1..Len(tw) |-> TokenOf(tw[k])],
   Base |-> base, Exponent |-> exponent, seed |-> seed,
   stage |-> "new", err |-> NoErr,
   values |-> <<>>, coms |-> <<>>, commitmentBlindingFactor |-> <<>>,
   randomness |-> NoRandomness, Commitment |-> NoCommitment, proof |-> NoProof,
   challenges |-> 0, given |-> NoProof, verdict |-> "none"]

RangeIdle ==
  rp = NewProver(<<[Type |-> "A", Value |-> 0, BlindingFactor |-> 1]>>, 1, 2, 1)

InitRange ==
  \E base \in 2..MaxBase, exponent \in 1..MaxExponent, seed \in 1..MaxSeed,
     tw \in SeqsUpTo(TokenDataWitnesses, 1, MaxRangeTokens) :
    rp = NewProver(tw, exponent, base, seed)

\* Prove, lines 103-106
rp_computeMembershipWitness ==
  /\ rp.stage = "new"
  /\ LET r == computeMembershipWitness(rp, 1, rp)
     IN  rp' = [r EXCEPT !.stage = IF r.err # NoErr THEN "failed" ELSE "witness"]
  /\ UNCHANGED <<ccVars, reqVars, signed, listed, sg, an, ex, svcVars>>

\* Prove, lines 108-120: the commitments and the membership proof of every
\* digit; each mp.Prove() returns a finished proof
rp_membershipProofs ==
  /\ rp.stage = "witness"
  /\ rp' = [rp EXCEPT
       !.stage = "membership",
       !.challenges = @ + Len(rp.Token) * rp.Exponent,
       !.proof.MembershipProofs =
          [k \in 1..Len(rp.Token) |->
             [Commitments |-> rp.coms[k],
              SignatureProofs |-> [j \in 1..rp.Exponent |->
                 MembershipProve(rp.values[k][j],
                   digitBF(rp.seed, rp.Exponent, k, j - 1), rp.coms[k][j],
                   RandModOrder(rp.seed,
                     FirstMembershipDraw + 2 * ((k - 1) * rp.Exponent + j) - 1),
                   RandModOrder(rp.seed,
                     FirstMembershipDraw + 2 * ((k - 1) * rp.Exponent + j)))]]]]
  /\ UNCHANGED <<ccVars, reqVars, signed, listed, sg, an, ex, svcVars>>

\* Prove, lines 122-125
rp_computeCommitment ==
  /\ rp.stage = "membership"
  /\ rp' = [computeCommitment(rp) EXCEPT !.stage = "commitment"]
  /\ UNCHANGED <<ccVars, reqVars, signed, listed, sg, an, ex, svcVars>>

\* Prove, line 127
rp_computeChallenge ==
  /\ rp.stage = "commitment"
  /\ rp' = [rp EXCEPT
       !.stage = "challenge",
       !.challenges = @ + 1,
       !.proof.Challenge = computeChallenge(rp.Token, rp.Commitment, rp.coms)]
  /\ UNCHANGED <<ccVars, reqVars, signed, listed, sg, an, ex, svcVars>>

\* Prove, lines 129-144: the equality proofs
rp_equalityProofs ==
  /\ rp.stage = "challenge"
  /\ LET n == Len(rp.Token)
         c == rp.proof.Challenge
         sp(k) == SchnorrProve(c,
                    <<rp.randomness.Value[k], rp.randomness.TokenBlindingFactor[k],
                      rp.randomness.CommitmentBlindingFactor[k]>>,
                    <<rp.tokenWitness[k].Value, rp.tokenWitness[k].BlindingFactor,
                      rp.commitmentBlindingFactor[k]>>)
     IN  rp' = [rp EXCEPT
           !.stage = "proved",
           !.proof.EqualityProofs =
              [Value |-> [k \in 1..n |-> sp(k)[1]],
               TokenBlindingFactor |-> [k \in 1..n |-> sp(k)[2]],
               CommitmentBlindingFactor |-> [k \in 1..n |-> sp(k)[3]],
               Type |-> (c * HashModOrder(rp.tokenWitness[1].Type)
                         + rp.randomness.Type) % Order]]
  /\ UNCHANGED <<ccVars, reqVars, signed, listed, sg, an, ex, svcVars>>

Front(seq) == SubSeq(seq, 1, Len(seq) - 1)

\* the proofs json.Unmarshal can hand to Verify in the place of pf: pf, or pf
\* with a membership proof, a digit, a digit commitment, an equality
\* response or the whole EqualityProofs left out
Deserializable(pf) ==
  {pf,
   [pf EXCEPT !.MembershipProofs = Front(@)],
   [pf EXCEPT !.MembershipProofs[1].Commitments = Front(@),
              !.MembershipProofs[1].SignatureProofs = Front(@)],
   [pf EXCEPT !.MembershipProofs[1].Commitments = Front(@)],
   [pf EXCEPT !.EqualityProofs.Value = Front(@)],
   [pf EXCEPT !.EqualityProofs = NoProof.EqualityProofs]}

\* Verifier.Verify with the public inputs of the prover
rp_Verify ==
  /\ rp.stage = "proved"
  /\ \E pf \in Deserializable(rp.proof) :
       rp' = [rp EXCEPT
          !.stage = "verified",
          !.given = pf,
          !.verdict = Verify(rp.Token, rp.Base, rp.Exponent, pf)]
  /\ UNCHANGED <<ccVars, reqVars, signed, listed, sg, an, ex, svcVars>>

NextRange ==
  \/ rp_computeMembershipWitness
  \/ rp_membershipProofs
  \/ rp_computeCommitment
  \/ rp_computeChallenge
  \/ rp_equalityProofs
  \/ rp_Verify

\* ------------------------------------------------------------------------
\* sigproof: SigVerifier.Verify
\* ------------------------------------------------------------------------
\* hidden responses of a proof, hidden and disclosed messages of a verifier
MaxHidden == 2
MaxDisclosed == 2
\* length of the signature public key
MaxPK == 5

ErrPKLength ==
  "length of signature public key does not match number of signed messages"
ErrPOK == "failed to verify signature proof"
ErrInvalidSigProof == "invalid signature proof"

\* NewSigVerifier: hidden indices 0..h-1, disclosed indices h..h+d-1
NewSigVerifier(h, d, lenPK) ==
  [HiddenIndices |-> [j \in 1..h |-> j - 1],
   DisclosedIndices |-> [j \in 1..d |-> h + j - 1],
   Disclosed |-> [j \in 1..d |-> 1],
   PK |-> lenPK]

SigProofs == [Hidden : SeqsUpTo({1}, 0, MaxHidden), Challenge : {1}]

\* SigVerifier.recomputeCommitments: the error it returns, or the challenge
\* chal that hashing the recomputed commitments gives. Filling
\* proof[index] = p.Hidden[i] past either slice panics.
SigVerifier_recomputeCommitments(v, pf, pokErr, chal) ==
  IF Len(pf.Hidden) + Len(v.Disclosed) # v.PK - 2
  THEN [err |-> ErrPKLength, chal |-> 0]
  ELSE IF \/ \E j \in 1..Len(v.HiddenIndices) :
               j > Len(pf.Hidden) \/ v.HiddenIndices[j] >= v.PK - 2
          \/ \E j \in 1..Len(v.DisclosedIndices) :
               v.DisclosedIndices[j] >= v.PK - 2
  THEN [err |-> "panic", chal |-> 0]
  ELSE IF pokErr THEN [err |-> ErrPOK, chal |-> 0]
  ELSE [err |-> NoErr, chal |-> chal]

\* SigVerifier.Verify: an error of recomputeCommitments or of computeChallenge
\* ends it with `return nil`
SigVerifier_Verify(v, pf, pokErr, serializeErr, chal) ==
  LET com == SigVerifier_recomputeCommitments(v, pf, pokErr, chal)
  IN  IF com.err = "panic" THEN "panic"
      ELSE IF com.err # NoErr THEN NoErr
      ELSE IF serializeErr THEN NoErr
      ELSE IF com.chal # pf.Challenge THEN ErrInvalidSigProof
      ELSE NoErr

SigIdle ==
  sg = [v |-> NewSigVerifier(0, 0, 2), p |-> [Hidden |-> <<>>, Challenge |-> 1],
        stage |-> "new", err |-> NoErr]

InitSig ==
  \E h \in 0..MaxHidden, d \in 0..MaxDisclosed, lenPK \in 2..MaxPK,
     pf \in SigProofs :
    sg = [v |-> NewSigVerifier(h, d, lenPK), p |-> pf,
          stage |-> "new", err |-> NoErr]

sig_Verify ==
  /\ sg.stage = "new"
  /\ \E pokErr \in BOOLEAN, serializeErr \in BOOLEAN, chal \in 0..1 :
       sg' = [sg EXCEPT
          !.stage = "verified",
          !.err = SigVerifier_Verify(sg.v, sg.p, pokErr, serializeErr, chal)]
  /\ UNCHANGED <<ccVars, reqVars, signed, listed, rp, an, ex, svcVars>>

\* what the caller does with the verdict
sig_return ==
  /\ sg.stage = "verified"
  /\ sg' = [sg EXCEPT !.stage = "returned"]
  /\ UNCHANGED <<ccVars, reqVars, signed, listed, rp, an, ex, svcVars>>

NextSig ==
  \/ sig_Verify
  \/ sig_return

\* ------------------------------------------------------------------------
\* anonym: Signer.Sign, Verifier.Verify
\* ------------------------------------------------------------------------
\* secret keys, of which 1..MaxIssuers belong to the authorized issuers
MaxIssuers == 2
MaxSk == 3
MaxMessages == 2

G1Sub(a, b) == G1Add(a, G1Neg(b))

\* Issuers[k] = g_0^sk * g_1^type: issuer k holds key k and issues type k
Issuers == [k \in 1..MaxIssuers |-> <<k, k, 0>>]

AuthorizationWitnesses ==
  [Sk : 1..MaxSk, TType : 1..MaxIssuers, TNymBF : {1}, TokenType : 1..MaxIssuers,
   Value : {1}, TokenBF : {2}, Index : 1..MaxIssuers]

\* Authorization: Type = g_0^SK * g_1^type * h^r', Token = g_0^type * g_1^Value * h^r''
NewAuthorization(w) ==
  [Type |-> <<w.Sk, w.TType, w.TNymBF>>,
   Token |-> <<w.TokenType, w.Value, w.TokenBF>>]

\* Auth.Type minus every issuer
differences(issuers, auth) ==
  [k \in 1..Len(issuers) |-> G1Sub(auth.Type, issuers[k])]

\* o2omp.Prover.Prove: a proof that commitments[index] is h^r; it stands for
\* its statement and says whether the witness opens it
o2ompProve(commitments, message, index, r) ==
  [statement |-> commitments, message |-> message,
   sound |-> commitments[index] = G1Mul(PedersenParams(2), r)]

\* o2omp.Verifier.Verify
o2ompVerify(commitments, message, pf) ==
  pf.sound /\ pf.statement = commitments /\ pf.message = message

\* TypeCorrectnessProver.Prove: the type in Auth.Type is the type in Auth.Token
TypeCorrectnessProve(w, auth, message) ==
  [statement |-> auth, message |-> message,
   sound |-> /\ auth.Type = <<w.Sk, w.TType, w.TNymBF>>
             /\ auth.Token = <<w.TType, w.Value, w.TokenBF>>]

\* TypeCorrectnessVerifier.Verify
TypeCorrectnessVerify(auth, message, pf) ==
  pf.sound /\ pf.statement = auth /\ pf.message = message

ErrPedersenParams == "length of Pedersen parameters != 3"
ErrUnmarshalSig == "failed to unmarshal issuer's signature"
ErrPseudonym == "failed to verify issuer's pseudonym"
ErrTypeCorrectness == "invalid type correctness proof"
\* bytes that Signature.Deserialize refuses
NoSig ==
  [wellFormed |-> FALSE,
   AuthorizationCorrectness |-> [statement |-> <<>>, message |-> 0, sound |-> FALSE],
   TypeCorrectness |-> [statement |-> [Type |-> G1Zero, Token |-> G1Zero],
                        message |-> 0, sound |-> FALSE]]

\* Signer.Sign
Sign(w, issuers, auth, nParams, message) ==
  IF nParams # 3 THEN NoSig
  ELSE [wellFormed |-> TRUE,
        AuthorizationCorrectness |->
          o2ompProve(differences(issuers, auth), message, w.Index, w.TNymBF),
        TypeCorrectness |-> TypeCorrectnessProve(w, auth, message)]

\* Verifier.Verify without the type correctness proof
anonym_Verify_authorizationOnly(issuers, auth, nParams, message, rawsig) ==
  IF nParams # 3 THEN ErrPedersenParams
  ELSE IF ~rawsig.wellFormed THEN ErrUnmarshalSig
  ELSE IF ~o2ompVerify(differences(issuers, auth), message,
                       rawsig.AuthorizationCorrectness)
  THEN ErrPseudonym
  ELSE NoErr

\* Verifier.Verify
anonym_Verify(issuers, auth, nParams, message, rawsig) ==
  IF nParams # 3 THEN ErrPedersenParams
  ELSE IF ~rawsig.wellFormed THEN ErrUnmarshalSig
  ELSE IF ~o2ompVerify(differences(issuers, auth), message,
                       rawsig.AuthorizationCorrectness)
  THEN ErrPseudonym
  ELSE IF ~TypeCorrectnessVerify(auth, message, rawsig.TypeCorrectness)
  THEN ErrTypeCorrectness
  ELSE NoErr

NewSigner(w) ==
  [Witness |-> w, Auth |-> NewAuthorization(w), sig |-> NoSig,
   stage |-> "new", given |-> [nParams |-> 3, message |-> 1, rawsig |-> NoSig,
                               Auth |-> NewAuthorization(w)],
   err |-> NoErr]

AnonymIdle ==
  an = NewSigner([Sk |-> 1, TType |-> 1, TNymBF |-> 1, TokenType |-> 1,
                  Value |-> 1, TokenBF |-> 2, Index |-> 1])

InitAnonym == \E w \in AuthorizationWitnesses : an = NewSigner(w)

anonym_Sign ==
  /\ an.stage = "new"
  /\ \E message \in 1..MaxMessages :
       an' = [an EXCEPT
          !.stage = "signed",
          !.sig = Sign(an.Witness, Issuers, an.Auth, 3, message)]
  /\ UNCHANGED <<ccVars, reqVars, signed, listed, rp, sg, ex, svcVars>>

\* Verify by a verifier that holds the authorization of the signer or one
\* with another token, over a message and bytes of the caller's choice
anonym_VerifyCall ==
  /\ an.stage = "signed"
  /\ \E nParams \in 2..3, message \in 1..MaxMessages,
        rawsig \in {an.sig, NoSig},
        token \in {<<t, an.Witness.Value, an.Witness.TokenBF>> : t \in 1..MaxIssuers} :
       LET auth == [an.Auth EXCEPT !.Token = token]
       IN  an' = [an EXCEPT
              !.stage = "verified",
              !.given = [nParams |-> nParams, message |-> message,
                         rawsig |-> rawsig, Auth |-> auth],
              !.err = anonym_Verify(Issuers, auth, nParams, message, rawsig)]
  /\ UNCHANGED <<ccVars, reqVars, signed, listed, rp, sg, ex, svcVars>>

NextAnonym ==
  \/ anonym_Sign
  \/ anonym_VerifyCall

\* ------------------------------------------------------------------------
\* The existence checks of the translator and the chaincode, one by one, over
\* ledgers whose keys hold nothing, an empty value or a value
\* ------------------------------------------------------------------------
\* the keys the checks look at, with the value each holds when written
CheckedKeys ==
  {CreateTokenKey(1, 0), SerialKey(1), CreateTokenRequestKey(1), CreateSetupKey}

Written(key) ==
  CASE key = CreateTokenKey(1, 0) -> OutputBytes
    [] key = SerialKey(1) -> FormatBoolTrue
    [] key = CreateTokenRequestKey(1) -> RawBytes(1)
    [] OTHER -> SetupParameters

Ledgers ==
  {[EmptyRWSet EXCEPT !.st = [k \in Keys |-> IF k \in CheckedKeys THEN f[k] ELSE Nil]] :
     f \in {g \in [CheckedKeys -> {Nil, Empty, OutputBytes, FormatBoolTrue,
                                     RawBytes(1), SetupParameters}] :
              \A k \in CheckedKeys : g[k] \in {Nil, Empty, Written(k)}}}

\* the transfers that spend the checked token or serial number in
\* transaction 2
CheckedTransfers ==
  {t \in TransferActions :
     GetInputs(t) \in {<<CreateTokenKey(1, 0)>>, <<SerialKey(1)>>}}

\* the error of one existence check over rws
existenceCheck(op, rws) ==
  CASE op.name = "checkTransfer" -> checkTransfer(rws, 2, 0, op.t)
    [] op.name = "checkTokenDoesNotExist" -> checkTokenDoesNotExist(rws, 0, 1)
    [] op.name = "CommitTokenRequest" ->
         CommitTokenRequest(rws, 1, RawBytes(1)).err
    [] op.name = "init" -> init(NewCC, rws, TRUE).err
    [] OTHER -> QueryTokens(rws, <<<<1, 0>>>>).err

NoOp == [name |-> "none", t |-> CHOOSE t \in CheckedTransfers : TRUE]

ExistIdle == ex = [rws |-> EmptyRWSet, op |-> NoOp, err |-> NoErr]

InitExist == \E l \in Ledgers : ex = [rws |-> l, op |-> NoOp, err |-> NoErr]

\* the record of the check op run over the ledger of ex
checked(op) == [ex EXCEPT !.op = op, !.err = existenceCheck(op, ex.rws)]

ex_checkTransfer ==
  /\ ex.op = NoOp
  /\ \E t \in CheckedTransfers :
       ex' = checked([name |-> "checkTransfer", t |-> t])
  /\ UNCHANGED <<ccVars, reqVars, signed, listed, rp, sg, an, svcVars>>

ex_checkTokenDoesNotExist ==
  /\ ex.op = NoOp
  /\ ex' = checked([NoOp EXCEPT !.name = "checkTokenDoesNotExist"])
  /\ UNCHANGED <<ccVars, reqVars, signed, listed, rp, sg, an, svcVars>>

ex_CommitTokenRequest ==
  /\ ex.op = NoOp
  /\ ex' = checked([NoOp EXCEPT !.name = "CommitTokenRequest"])
  /\ UNCHANGED <<ccVars, reqVars, signed, listed, rp, sg, an, svcVars>>

ex_init ==
  /\ ex.op = NoOp
  /\ ex' = checked([NoOp EXCEPT !.name = "init"])
  /\ UNCHANGED <<ccVars, reqVars, signed, listed, rp, sg, an, svcVars>>

ex_QueryTokens ==
  /\ ex.op = NoOp
  /\ ex' = checked([NoOp EXCEPT !.name = "QueryTokens"])
  /\ UNCHANGED <<ccVars, reqVars, signed, listed, rp, sg, an, svcVars>>

NextExist ==
  \/ ex_checkTransfer
  \/ ex_checkTokenDoesNotExist
  \/ ex_CommitTokenRequest
  \/ ex_init
  \/ ex_QueryTokens

\* ------------------------------------------------------------------------
\* The chaincode's handlers that read and change the public parameters
\* ------------------------------------------------------------------------
MaxParams == 3

\* the serialized public parameters a manager hands back: version n
PublicParams(n) == IF n = 1 THEN SetupParameters ELSE <<"pp", n>>

ErrSerialize == "failed to serialize public parameters"

NewParams ==
  [rws |-> EmptyRWSet, cc |-> NewCC, op |-> "none", initErr |-> NoErr,
   err |-> NoErr, ppRead |-> Nil, called |-> FALSE, before |-> NewCC,
   validator |-> NoService]

ParamsIdle == pm = NewParams

InitParams == pm = NewParams

\* what a handler leaves behind: x is the result of cc.init
handled(op, x, rws2, err, validator) ==
  [rws |-> rws2, cc |-> x.cc, op |-> op, initErr |-> x.err, err |-> err,
   ppRead |-> ReadSetupParameters(pm.rws), called |-> x.called,
   before |-> pm.cc, validator |-> validator]

\* addIssuer, addAuditor, addCertifier: load the manager, let it produce
\* the new parameters (n = 0: it fails), write them as a setup action
setParameters(op, factoryOK, n) ==
  LET x == init(pm.cc, pm.rws, factoryOK)
  IN  IF x.err # NoErr THEN handled(op, x, pm.rws, x.err, NoService)
      ELSE IF n = 0 THEN handled(op, x, pm.rws, ErrSerialize, NoService)
      ELSE LET w == Write(pm.rws, NoTx, 0,
                          [kind |-> "setup", params |-> PublicParams(n)])
           IN  handled(op, x, w.rws, w.err, NoService)

\* TokenChaincode.Init
pm_Init ==
  /\ GetState(pm.rws, CreateSetupKey) = Nil
  /\ \E n \in 1..MaxParams :
       LET w == Write(pm.rws, NoTx, 0,
                      [kind |-> "setup", params |-> PublicParams(n)])
       IN  pm' = [pm EXCEPT !.rws = w.rws, !.op = "Init", !.err = w.err,
                            !.initErr = NoErr, !.called = FALSE,
                            !.ppRead = ReadSetupParameters(pm.rws),
                            !.before = pm.cc, !.validator = NoService]
  /\ UNCHANGED <<ccVars, reqVars, signed, listed, rp, sg, an, ex, rc, qt, sl, sm, mr>>

\* TokenChaincode.invoke of a request that carries no action
pm_invoke ==
  /\ \E t \in TxIDs, r \in Raws, factoryOK \in BOOLEAN, verifyOK \in BOOLEAN :
       LET x == init(pm.cc, pm.rws, factoryOK)
           c == CommitTokenRequest(pm.rws, t, RawBytes(r))
       IN  pm' = IF x.err # NoErr
                 THEN handled("invoke", x, pm.rws, x.err, NoService)
                 ELSE IF ~verifyOK
                 THEN handled("invoke", x, pm.rws, ErrVerify, x.cc.Validator)
                 ELSE handled("invoke", x, c.rws, c.err, x.cc.Validator)
  /\ UNCHANGED <<ccVars, reqVars, signed, listed, rp, sg, an, ex, rc, qt, sl, sm, mr>>

pm_addIssuer ==
  /\ \E factoryOK \in BOOLEAN, n \in 0..MaxParams :
       pm' = setParameters("addIssuer", factoryOK, n)
  /\ UNCHANGED <<ccVars, reqVars, signed, listed, rp, sg, an, ex, rc, qt, sl, sm, mr>>

pm_addAuditor ==
  /\ \E factoryOK \in BOOLEAN, n \in 0..MaxParams :
       pm' = setParameters("addAuditor", factoryOK, n)
  /\ UNCHANGED <<ccVars, reqVars, signed, listed, rp, sg, an, ex, rc, qt, sl, sm, mr>>

pm_addCertifier ==
  /\ \E factoryOK \in BOOLEAN, n \in 0..MaxParams :
       pm' = setParameters("addCertifier", factoryOK, n)
  /\ UNCHANGED <<ccVars, reqVars, signed, listed, rp, sg, an, ex, rc, qt, sl, sm, mr>>

NextParams ==
  \/ pm_Init
  \/ pm_invoke
  \/ pm_addIssuer
  \/ pm_addAuditor
  \/ pm_addCertifier

\* ------------------------------------------------------------------------
\* Two invocations on one TokenChaincode
\* ------------------------------------------------------------------------
MaxRuns == 2

\* the goroutines the shim runs Invoke in
Invocations == 1..2

NoFactory == [ppm |-> NoService, validator |-> NoService]

NewInvocation ==
  [pc |-> "idle", ppRaw |-> Nil, f |-> NoFactory, validator |-> NoService,
   err |-> NoErr, runs |-> 0]

NewRace == [cc |-> NewCC, inv |-> [p \in Invocations |-> NewInvocation]]

RaceIdle == rc = NewRace

InitRace == rc = NewRace

\* invoke calls cc.validator(stub); init reads the setup parameters of the
\* ledger this invocation is simulated on
rc_ReadSetupParameters ==
  /\ \E p \in Invocations, n \in 1..MaxParams :
       /\ rc.inv[p].pc \in {"idle", "done"}
       /\ rc.inv[p].runs < MaxRuns
       /\ rc' = [rc EXCEPT !.inv[p] =
                   [NewInvocation EXCEPT !.pc = "digest",
                                         !.ppRaw = PublicParams(n),
                                         !.runs = rc.inv[p].runs + 1]]
  /\ UNCHANGED <<ccVars, reqVars, signed, listed, rp, sg, an, ex, pm, qt, sl, sm, mr>>

\* init, line 228: the cached digest and validator are compared
rc_compare ==
  /\ \E p \in Invocations :
       /\ rc.inv[p].pc = "digest"
       /\ rc' = [rc EXCEPT !.inv[p].pc =
                   IF /\ rc.cc.PPDigest # NoDigest
                      /\ rc.cc.Validator # NoService
                      /\ SHA256(rc.inv[p].ppRaw) = rc.cc.PPDigest
                   THEN "return" ELSE "factory"]
  /\ UNCHANGED <<ccVars, reqVars, signed, listed, rp, sg, an, ex, pm, qt, sl, sm, mr>>

\* init, lines 234-238: cc.TokenServicesFactory(ppRaw)
rc_TokenServicesFactory ==
  /\ \E p \in Invocations, factoryOK \in BOOLEAN :
       /\ rc.inv[p].pc = "factory"
       /\ rc' = IF factoryOK
                THEN [rc EXCEPT !.inv[p].pc = "ppm",
                                !.inv[p].f = TokenServicesFactory(rc.inv[p].ppRaw)]
                ELSE [rc EXCEPT !.inv[p].pc = "done",
                                !.inv[p].err = ErrFactory]
  /\ UNCHANGED <<ccVars, reqVars, signed, listed, rp, sg, an, ex, pm, qt, sl, sm, mr>>

\* init, line 239: cc.PublicParametersManager = ppm
rc_setPublicParametersManager ==
  /\ \E p \in Invocations :
       /\ rc.inv[p].pc = "ppm"
       /\ rc' = [rc EXCEPT !.cc.PublicParametersManager = rc.inv[p].f.ppm,
                           !.inv[p].pc = "validator"]
  /\ UNCHANGED <<ccVars, reqVars, signed, listed, rp, sg, an, ex, pm, qt, sl, sm, mr>>

\* init, line 240: cc.Validator = validator
rc_setValidator ==
  /\ \E p \in Invocations :
       /\ rc.inv[p].pc = "validator"
       /\ rc' = [rc EXCEPT !.cc.Validator = rc.inv[p].f.validator,
                           !.inv[p].pc = "ppdigest"]
  /\ UNCHANGED <<ccVars, reqVars, signed, listed, rp, sg, an, ex, pm, qt, sl, sm, mr>>

\* init, line 241: cc.PPDigest = digest
rc_setPPDigest ==
  /\ \E p \in Invocations :
       /\ rc.inv[p].pc = "ppdigest"
       /\ rc' = [rc EXCEPT !.cc.PPDigest = SHA256(rc.inv[p].ppRaw),
                           !.inv[p].pc = "return"]
  /\ UNCHANGED <<ccVars, reqVars, signed, listed, rp, sg, an, ex, pm, qt, sl, sm, mr>>

\* validator, line 202: return cc.Validator
rc_validator ==
  /\ \E p \in Invocations :
       /\ rc.inv[p].pc = "return"
       /\ rc' = [rc EXCEPT !.inv[p].validator = rc.cc.Validator,
                           !.inv[p].pc = "verify"]
  /\ UNCHANGED <<ccVars, reqVars, signed, listed, rp, sg, an, ex, pm, qt, sl, sm, mr>>

\* invoke, line 253: validator.UnmarshallAndVerify, then the response
rc_UnmarshallAndVerify ==
  /\ \E p \in Invocations, verifyOK \in BOOLEAN :
       /\ rc.inv[p].pc = "verify"
       /\ rc' = [rc EXCEPT !.inv[p].pc = "done",
                           !.inv[p].err = IF verifyOK THEN NoErr ELSE ErrVerify]
  /\ UNCHANGED <<ccVars, reqVars, signed, listed, rp, sg, an, ex, pm, qt, sl, sm, mr>>

NextRace ==
  \/ rc_ReadSetupParameters
  \/ rc_compare
  \/ rc_TokenServicesFactory
  \/ rc_setPublicParametersManager
  \/ rc_setValidator
  \/ rc_setPPDigest
  \/ rc_validator
  \/ rc_UnmarshallAndVerify

\* ------------------------------------------------------------------------
\* QueryTokens
\* ------------------------------------------------------------------------
MaxQuery == 2

\* the token keys the queried ledgers differ in
QueriedKeys == {CreateTokenKey(1, 0), CreateTokenKey(2, 0)}

QueryLedgers ==
  {[EmptyRWSet EXCEPT !.st = [k \in Keys |-> IF k \in QueriedKeys THEN f[k] ELSE Nil]] :
     f \in [QueriedKeys -> {Nil, Empty, OutputBytes, ReadFails}]}

QueryIds == {<<1, 0>>, <<2, 0>>, <<BadTxID, 0>>}

IdLists == SeqsUpTo(QueryIds, 0, MaxQuery)

ErrUnmarshal == "failed unmarshalling tokens ids"

NoQuery ==
  [rws |-> EmptyRWSet, called |-> "none", ids |-> <<>>, parsed |-> TRUE,
   err |-> NoErr, res |-> <<>>, resp |-> NoResp]

QueryIdle == qt = NoQuery

InitQuery == \E l \in QueryLedgers : qt = [NoQuery EXCEPT !.rws = l]

\* Translator.QueryTokens called on the ledger
qt_QueryTokens ==
  /\ qt.called = "none"
  /\ \E ids \in IdLists :
       LET q == QueryTokens(qt.rws, ids)
       IN  qt' = [qt EXCEPT !.called = "QueryTokens", !.ids = ids,
                            !.err = q.err, !.res = q.res]
  /\ UNCHANGED <<ccVars, reqVars, signed, listed, rp, sg, an, ex, pm, rc, sl, sm, mr>>

\* TokenChaincode.queryTokens: unmarshal the ids, query, marshal the values
qt_queryTokens ==
  /\ qt.called = "none"
  /\ \E ids \in IdLists, parsed \in BOOLEAN :
       IF ~parsed
       THEN qt' = [qt EXCEPT !.called = "queryTokens", !.ids = ids,
                             !.parsed = FALSE, !.err = ErrUnmarshal,
                             !.resp = Error(ErrUnmarshal)]
       ELSE LET q == QueryTokens(qt.rws, ids)
            IN  qt' = [qt EXCEPT !.called = "queryTokens", !.ids = ids,
                                 !.err = q.err, !.res = q.res,
                                 !.resp = IF q.err # NoErr THEN Error(q.err)
                                          ELSE Success]
  /\ UNCHANGED <<ccVars, reqVars, signed, listed, rp, sg, an, ex, pm, rc, sl, sm, mr>>

NextQuery ==
  \/ qt_QueryTokens
  \/ qt_queryTokens

\* ------------------------------------------------------------------------
\* The selector
\* ------------------------------------------------------------------------
MaxRetry == 2

\* a quantity string token2.ToQuantity returns an error for
NotANumber == -2

Wallets == {"alice", "bob"}

\* token2.UnspentToken as ListUnspentTokens returns it
UnspentTokens ==
  [Id : TokenIDs, Type : TokenTypes, Owner : Wallets,
   Quantity : (1..MaxQuantity) \cup {NotANumber}]

\* the lists ListUnspentTokens returns: one token for each id of the vault
Listings ==
  {l \in [TokenIDs -> UnspentTokens] : \A id \in TokenIDs : l[id].Id = id}

\* token.OwnerFilter: nil stands for allOwners; the other filter is the
\* wallet of alice
AllOwners == "nil"
OwnerFilters == {AllOwners, "alice"}
\* the type Select is asked for
RequestedTypes == {"A"}
Contains(ownerFilter, owner) == ownerFilter = AllOwners \/ ownerFilter = owner

ErrConvert == "failed to convert quantity"
ErrListing == "token selection failed"
ErrConcurrency == "sufficient funs but concurrency issue"
ErrLockedFunds == "sufficient but partially locked funds"
ErrNotCertified == "sufficient but partially not certified"
ErrInsufficient == "insufficient funds"

SeqRange(seq) == {seq[j] : j \in 1..Len(seq)}

\* Locker.UnlockIDs on the set of ids locked under the selector's txID
UnlockIDs(mine, ids) == mine \ SeqRange(ids)

\* selector.concurrencyCheck: GetTokens fails if one of the ids is gone
concurrencyCheck(gone, ids) ==
  IF SeqRange(ids) \cap gone # {} THEN "token not found" ELSE NoErr

NewScan ==
  [toBeSpent |-> <<>>, toBeCertified |-> <<>>, locked |-> <<>>, sum |-> 0,
   potentialSumWithLocked |-> 0, potentialSumWithNonCertified |-> 0,
   mine |-> {}, took |-> {}, err |-> NoErr]

\* variant: the owner filter is not asked
RECURSIVE selectLoop_anyOwner(_, _, _, _)
selectLoop_anyOwner(c, e, j, st) ==
  IF j > Len(c.tokens) THEN st
  ELSE LET t == c.tokens[j]
           q == t.Quantity
       IN  IF q = NotANumber
           THEN [st EXCEPT !.err = ErrConvert,
                   !.mine = UnlockIDs(UnlockIDs(st.mine, st.toBeSpent),
                                      st.toBeCertified)]
           ELSE IF t.Type # c.tokenType
           THEN selectLoop_anyOwner(c, e, j + 1, st)
           ELSE IF t.Id \in e.busy
           THEN selectLoop_anyOwner(c, e, j + 1,
                  [st EXCEPT !.locked = Append(st.locked, t.Id),
                             !.potentialSumWithLocked = @ + q])
           ELSE IF c.certClient /\ t.Id \notin e.certified
           THEN selectLoop_anyOwner(c, e, j + 1,
                  [st EXCEPT !.mine = @ \cup {t.Id},
                             !.took = @ \cup {t.Id},
                             !.toBeCertified = Append(st.toBeCertified, t.Id),
                             !.potentialSumWithNonCertified = @ + q])
           ELSE LET st1 == [st EXCEPT !.mine = @ \cup {t.Id},
                                      !.took = @ \cup {t.Id},
                                      !.toBeSpent = Append(st.toBeSpent, t.Id),
                                      !.sum = @ + q,
                                      !.potentialSumWithLocked = @ + q,
                                      !.potentialSumWithNonCertified = @ + q]
                IN  IF c.target <= st1.sum THEN st1
                    ELSE selectLoop_anyOwner(c, e, j + 1, st1)

\* variant: a token whose quantity does not convert ends the call with the
\* locks taken so far still held
RECURSIVE selectLoop_locksKept(_, _, _, _)
selectLoop_locksKept(c, e, j, st) ==
  IF j > Len(c.tokens) THEN st
  ELSE LET t == c.tokens[j]
           q == t.Quantity
       IN  IF q = NotANumber
           THEN [st EXCEPT !.err = ErrConvert]
           ELSE IF t.Type # c.tokenType
           THEN selectLoop_locksKept(c, e, j + 1, st)
           ELSE IF ~Contains(c.ownerFilter, t.Owner)
           THEN selectLoop_locksKept(c, e, j + 1, st)
           ELSE IF t.Id \in e.busy
           THEN selectLoop_locksKept(c, e, j + 1,
                  [st EXCEPT !.locked = Append(st.locked, t.Id),
                             !.potentialSumWithLocked = @ + q])
           ELSE IF c.certClient /\ t.Id \notin e.certified
           THEN selectLoop_locksKept(c, e, j + 1,
                  [st EXCEPT !.mine = @ \cup {t.Id},
                             !.took = @ \cup {t.Id},
                             !.toBeCertified = Append(st.toBeCertified, t.Id),
                             !.potentialSumWithNonCertified = @ + q])
           ELSE LET st1 == [st EXCEPT !.mine = @ \cup {t.Id},
                                      !.took = @ \cup {t.Id},
                                      !.toBeSpent = Append(st.toBeSpent, t.Id),
                                      !.sum = @ + q,
                                      !.potentialSumWithLocked = @ + q,
                                      !.potentialSumWithNonCertified = @ + q]
                IN  IF c.target <= st1.sum THEN st1
                    ELSE selectLoop_locksKept(c, e, j + 1, st1)

\* Select, lines 98-147: the loop over unspentTokens.Tokens from position j
\* on. c: the arguments and fields of the selector; e.busy: the ids Lock
\* fails for; e.certified: the ids IsCertified holds for; st.mine: the ids
\* locked under s.txID
RECURSIVE selectLoop(_, _, _, _)
selectLoop(c, e, j, st) ==
  IF j > Len(c.tokens) THEN st
  ELSE LET t == c.tokens[j]
           q == t.Quantity
       IN  IF q = NotANumber
           THEN [st EXCEPT !.err = ErrConvert,
                   !.mine = UnlockIDs(UnlockIDs(st.mine, st.toBeSpent),
                                      st.toBeCertified)]
           ELSE IF t.Type # c.tokenType
           THEN selectLoop(c, e, j + 1, st)
           ELSE IF ~Contains(c.ownerFilter, t.Owner)
           THEN selectLoop(c, e, j + 1, st)
           ELSE IF t.Id \in e.busy
           THEN selectLoop(c, e, j + 1,
                  [st EXCEPT !.locked = Append(st.locked, t.Id),
                             !.potentialSumWithLocked = @ + q])
           ELSE IF c.certClient /\ t.Id \notin e.certified
           THEN selectLoop(c, e, j + 1,
                  [st EXCEPT !.mine = @ \cup {t.Id},
                             !.took = @ \cup {t.Id},
                             !.toBeCertified = Append(st.toBeCertified, t.Id),
                             !.potentialSumWithNonCertified = @ + q])
           ELSE LET st1 == [st EXCEPT !.mine = @ \cup {t.Id},
                                      !.took = @ \cup {t.Id},
                                      !.toBeSpent = Append(st.toBeSpent, t.Id),
                                      !.sum = @ + q,
                                      !.potentialSumWithLocked = @ + q,
                                      !.potentialSumWithNonCertified = @ + q]
                IN  IF c.target <= st1.sum THEN st1
                    ELSE selectLoop(c, e, j + 1, st1)

\* what one round of the for loop of Select ends with
Round(done, ids, sum, err, mine, took, confirmed) ==
  [done |-> done, ids |-> ids, sum |-> sum, err |-> err, mine |-> mine,
   took |-> took, confirmed |-> confirmed]

\* variant: missing certifications are reported before locked funds
exhausted_certifiedFirst(c, st, concurrencyIssue) ==
  IF concurrencyIssue THEN ErrConcurrency
  ELSE IF /\ c.target <= st.potentialSumWithNonCertified
          /\ st.potentialSumWithNonCertified # st.sum
  THEN ErrNotCertified
  ELSE IF /\ c.target <= st.potentialSumWithLocked
          /\ st.potentialSumWithLocked # st.sum
  THEN ErrLockedFunds
  ELSE ErrInsufficient

\* the error Select fails with once the retries are used up
exhausted(c, st, concurrencyIssue) ==
  IF concurrencyIssue THEN ErrConcurrency
  ELSE IF /\ c.target <= st.potentialSumWithLocked
          /\ st.potentialSumWithLocked # st.sum
  THEN ErrLockedFunds
  ELSE IF /\ c.target <= st.potentialSumWithNonCertified
          /\ st.potentialSumWithNonCertified # st.sum
  THEN ErrNotCertified
  ELSE ErrInsufficient

\* variant: the retries end only when i equals numRetry
lastRound_equal(c, n) == n + 1 = c.numRetry

\* Select, lines 193-194: i++; if i >= s.numRetry
lastRound(c, n) == n + 1 >= c.numRetry

\* Select, lines 82-232: round n of the for loop. e.listed: whether
\* ListUnspentTokens succeeds; e.gone: the ids GetTokens does not find;
\* e.certify: whether RequestCertification succeeds
selectRound(c, e, n) ==
  IF ~e.listed THEN Round(TRUE, <<>>, NilQuantity, ErrListing, {}, {}, {})
  ELSE
  LET st == selectLoop(c, e, 1, NewScan)
      first == IF c.target <= st.sum
               THEN concurrencyCheck(e.gone, st.toBeSpent) ELSE NoErr
      certifying == /\ ~(c.target <= st.sum)
                    /\ c.target <= st.potentialSumWithNonCertified
                    /\ c.requestCertification
      ids == st.toBeSpent \o st.toBeCertified
      second == IF certifying /\ e.certify
                THEN concurrencyCheck(e.gone, ids) ELSE NoErr
      concurrencyIssue == first # NoErr \/ second # NoErr
      unlocked == UnlockIDs(UnlockIDs(st.mine, st.toBeSpent), st.toBeCertified)
  IN  IF st.err # NoErr
      THEN Round(TRUE, <<>>, NilQuantity, st.err, st.mine, st.took, {})
      ELSE IF c.target <= st.sum /\ first = NoErr
      THEN Round(TRUE, st.toBeSpent, st.sum, NoErr, st.mine, st.took,
                 SeqRange(st.toBeSpent))
      ELSE IF certifying /\ ~c.certClient
      THEN Round(TRUE, <<>>, NilQuantity, "panic", st.mine, st.took, {})
      ELSE IF certifying /\ e.certify /\ second = NoErr
      THEN Round(TRUE, ids, st.potentialSumWithNonCertified, NoErr, st.mine,
                 st.took, SeqRange(ids))
      ELSE IF lastRound(c, n)
      THEN Round(TRUE, <<>>, NilQuantity, exhausted(c, st, concurrencyIssue),
                 unlocked, st.took, {})
      ELSE Round(FALSE, <<>>, NilQuantity, NoErr, unlocked, st.took, {})

NoCall ==
  [tokens |-> <<>>, target |-> 0, tokenType |-> "", ownerFilter |-> AllOwners,
   certClient |-> FALSE, requestCertification |-> FALSE, numRetry |-> 0]

NewSelector ==
  [call |-> NoCall, at |-> "idle", n |-> 0, rounds |-> 0, mine |-> {},
   everLocked |-> {},
   took |-> {}, confirmed |-> {}, ids |-> <<>>, sum |-> NilQuantity,
   err |-> NoErr]

SelectIdle == sl = NewSelector

InitSelect == sl = NewSelector

\* Select, lines 67-81: the filter, the target quantity, i := 0
sl_Select ==
  /\ sl.at = "idle"
  /\ \E l \in Listings, ownerFilter \in OwnerFilters,
        q \in (1..(MaxQuantity + 1)) \cup {NotANumber},
        tokenType \in RequestedTypes, certClient \in BOOLEAN,
        requestCertification \in BOOLEAN, numRetry \in (0 - 1)..MaxRetry :
       LET c == [tokens |-> [j \in 1..MaxTokens |-> l[j]], target |-> q,
                 tokenType |-> tokenType, ownerFilter |-> ownerFilter,
                 certClient |-> certClient,
                 requestCertification |-> requestCertification,
                 numRetry |-> numRetry]
       IN  sl' = IF q = NotANumber
                 THEN [sl EXCEPT !.call = c, !.at = "done", !.err = ErrConvert]
                 ELSE [sl EXCEPT !.call = c, !.at = "loop"]
  /\ UNCHANGED <<ccVars, reqVars, signed, listed, rp, sg, an, ex, pm, rc, qt, sm, mr>>

\* Select, lines 82-232: one round of the for loop, up to the return or
\* the sleep before the next round
sl_round ==
  /\ sl.at = "loop"
  /\ \E busy \in SUBSET TokenIDs, certified \in SUBSET TokenIDs,
        gone \in SUBSET TokenIDs, tokensListed \in BOOLEAN,
        certify \in BOOLEAN :
       LET e == [busy |-> busy, certified |-> certified, gone |-> gone,
                 listed |-> tokensListed, certify |-> certify]
       IN  \E r \in {selectRound(sl.call, e, sl.n)} :
           sl' = [sl EXCEPT !.at = IF r.done THEN "done" ELSE "loop",
                            !.n = IF r.done THEN sl.n ELSE sl.n + 1,
                            !.rounds = sl.rounds + 1,
                            !.mine = r.mine,
                            !.everLocked = sl.everLocked \cup r.took,
                            !.took = r.took,
                            !.confirmed = r.confirmed,
                            !.ids = r.ids, !.sum = r.sum, !.err = r.err]
  /\ UNCHANGED <<ccVars, reqVars, signed, listed, rp, sg, an, ex, pm, rc, qt, sm, mr>>

NextSelect ==
  \/ sl_Select
  \/ sl_round

\* ------------------------------------------------------------------------
\* selectorService.SelectorManager
\* ------------------------------------------------------------------------
MaxCalls == 2

\* the goroutines that call SelectorManager
Callers == 1..2

\* strings are sequences of characters; + on strings is \o
Networks == {<<"a">>, <<"a", "b">>}
Channels == {<<"b", "c">>, <<"c">>}
Namespaces == {<<"d">>}

\* (Network(), Channel(), Namespace()) of a management service
Services == Networks \X Channels \X Namespaces

\* line 67: key := tms.Network() + tms.Channel() + tms.Namespace()
LockerKey(tms) == tms[1] \o tms[2] \o tms[3]

LockerKeys == {LockerKey(tms) : tms \in Services}

NoLocker == 0

\* variant: the mutex is taken whoever holds it
mutexFree_always(holder) == TRUE

\* sync.Mutex.Lock returns when no goroutine holds the mutex
mutexFree(holder) == holder = 0

NewCaller ==
  [pc |-> "idle", tms |-> <<<<>>, <<>>, <<>>>>, key |-> <<>>,
   locker |-> NoLocker, ok |-> FALSE, calls |-> 0]

NewService ==
  [lock |-> 0, lockers |-> [k \in LockerKeys |-> NoLocker],
   caller |-> [p \in Callers |-> NewCaller],
   news |-> <<>>, managers |-> {}]

ManagerIdle == sm = NewService

InitManager == sm = NewService

\* lines 57-62: token.GetManagementService; the service it resolves for the
\* arguments is any of Services
sm_GetManagementService ==
  /\ \E p \in Callers, tms \in Services :
       /\ sm.caller[p].pc = "idle"
       /\ sm.caller[p].calls < MaxCalls
       /\ sm' = [sm EXCEPT !.caller[p] =
                   [NewCaller EXCEPT !.pc = "lock", !.tms = tms,
                                     !.calls = sm.caller[p].calls + 1]]
  /\ UNCHANGED <<ccVars, reqVars, signed, listed, rp, sg, an, ex, pm, rc, qt, sl, mr>>

\* line 64: s.lock.Lock()
sm_Lock ==
  /\ \E p \in Callers :
       /\ sm.caller[p].pc = "lock"
       /\ mutexFree(sm.lock)
       /\ sm' = [sm EXCEPT !.lock = p, !.caller[p].pc = "lookup"]
  /\ UNCHANGED <<ccVars, reqVars, signed, listed, rp, sg, an, ex, pm, rc, qt, sl, mr>>

\* lines 67-68: key, and locker, ok := s.lockers[key]
sm_lookup ==
  /\ \E p \in Callers :
       /\ sm.caller[p].pc = "lookup"
       /\ LET key == LockerKey(sm.caller[p].tms)
          IN  sm' = [sm EXCEPT !.caller[p].key = key,
                               !.caller[p].locker = sm.lockers[key],
                               !.caller[p].ok = sm.lockers[key] # NoLocker,
                               !.caller[p].pc = "new"]
  /\ UNCHANGED <<ccVars, reqVars, signed, listed, rp, sg, an, ex, pm, rc, qt, sl, mr>>

\* lines 69-75: if !ok, a new locker from the provider is stored under key
sm_New ==
  /\ \E p \in Callers :
       /\ sm.caller[p].pc = "new"
       /\ IF sm.caller[p].ok
          THEN sm' = [sm EXCEPT !.caller[p].pc = "return"]
          ELSE LET locker == Len(sm.news) + 1
               IN  sm' = [sm EXCEPT
                            !.news = Append(sm.news, sm.caller[p].tms),
                            !.lockers[sm.caller[p].key] = locker,
                            !.caller[p].locker = locker,
                            !.caller[p].pc = "return"]
  /\ UNCHANGED <<ccVars, reqVars, signed, listed, rp, sg, an, ex, pm, rc, qt, sl, mr>>

\* lines 77-87: return newManager(locker, ...), and the deferred Unlock
sm_newManager ==
  /\ \E p \in Callers :
       /\ sm.caller[p].pc = "return"
       /\ sm' = [sm EXCEPT
                   !.managers = @ \cup {<<sm.caller[p].tms, sm.caller[p].locker>>},
                   !.lock = IF sm.lock = p THEN 0 ELSE sm.lock,
                   !.caller[p].pc = "idle"]
  /\ UNCHANGED <<ccVars, reqVars, signed, listed, rp, sg, an, ex, pm, rc, qt, sl, mr>>

NextManager ==
  \/ sm_GetManagementService
  \/ sm_Lock
  \/ sm_lookup
  \/ sm_New
  \/ sm_newManager

\* ------------------------------------------------------------------------
\* Request: the bytes that are signed and audited (part_004 lines 588-618)
\* ------------------------------------------------------------------------
\* actions of each kind one request holds
MaxHeld == 2
\* signatures appended to one request
MaxSignatures == 2

\* serialized actions, signatures and anchors
SerializedActions == {"a1", "a2"}
Sigmas == {"s1", "s2"}
Anchors == {"tx1", "tx2"}
\* a nil []byte
NilBytes == "null"

\* api2.TokenRequest
TokenRequest(issues, transfers, signatures, auditorSignature) ==
  [Issues |-> issues, Transfers |-> transfers, Signatures |-> signatures,
   AuditorSignature |-> auditorSignature]

\* json.Marshal of a TokenRequest: the four fields in the order of the struct
jsonMarshal(r) ==
  <<"{">> \o r.Issues \o <<",">> \o r.Transfers \o <<",">> \o r.Signatures
         \o <<",", r.AuditorSignature, "}">>

\* variant: the whole of t.Actions is marshalled, as RequestToBytes does
Request_MarshallToSign_allActions(t) ==
  jsonMarshal(TokenRequest(t.Issues, t.Transfers, t.Signatures, t.AuditorSignature))

\* Request.MarshallToSign: a TokenRequest with only Issues and Transfers set
Request_MarshallToSign(t) ==
  jsonMarshal(TokenRequest(t.Issues, t.Transfers, <<>>, NilBytes))

\* Request.MarshallToAudit: the same bytes, and the TxID appended
Request_MarshallToAudit(t) ==
  jsonMarshal(TokenRequest(t.Issues, t.Transfers, <<>>, NilBytes)) \o <<t.TxID>>

\* NewRequest(sp, txid): no actions, no signatures
NewMarshalled(txID) ==
  [TxID |-> txID, Issues |-> <<>>, Transfers |-> <<>>, Signatures |-> <<>>,
   AuditorSignature |-> NilBytes, op |-> "none", grew |-> FALSE,
   sign0 |-> <<>>, audit0 |-> <<>>]

\* history: the operation about to act and the bytes before it acts
Before(op, grew) ==
  [mr EXCEPT !.op = op, !.grew = grew,
             !.sign0 = Request_MarshallToSign(mr),
             !.audit0 = Request_MarshallToAudit(mr)]

MarshalIdle == mr = NewMarshalled("tx1")

InitMarshal == mr \in {NewMarshalled(txID) : txID \in Anchors}

\* Request.Issue: line 370 appends the serialized action; the call may
\* return an error before it
mr_Issue ==
  /\ Len(mr.Issues) < MaxHeld
  /\ \E raw1 \in SerializedActions, reached \in BOOLEAN :
       mr' = IF reached
             THEN [Before("Issue", TRUE) EXCEPT !.Issues = Append(mr.Issues, raw1)]
             ELSE Before("Issue", FALSE)
  /\ UNCHANGED <<ccVars, reqVars, signed, listed, rp, sg, an, ex, pm, rc, qt, sl, sm>>

\* Request.Transfer: line 419 appends the serialized action
mr_Transfer ==
  /\ Len(mr.Transfers) < MaxHeld
  /\ \E raw1 \in SerializedActions, reached \in BOOLEAN :
       mr' = IF reached
             THEN [Before("Transfer", TRUE) EXCEPT
                     !.Transfers = Append(mr.Transfers, raw1)]
             ELSE Before("Transfer", FALSE)
  /\ UNCHANGED <<ccVars, reqVars, signed, listed, rp, sg, an, ex, pm, rc, qt, sl, sm>>

\* Request.Redeem: line 451 appends the serialized action
mr_Redeem ==
  /\ Len(mr.Transfers) < MaxHeld
  /\ \E raw1 \in SerializedActions, reached \in BOOLEAN :
       mr' = IF reached
             THEN [Before("Redeem", TRUE) EXCEPT
                     !.Transfers = Append(mr.Transfers, raw1)]
             ELSE Before("Redeem", FALSE)
  /\ UNCHANGED <<ccVars, reqVars, signed, listed, rp, sg, an, ex, pm, rc, qt, sl, sm>>

\* Request.Import: lines 685-690 append the actions of the other request
mr_Import ==
  /\ \E issues \in SeqsUpTo(SerializedActions, 0, 1),
        transfers \in SeqsUpTo(SerializedActions, 0, 1) :
       /\ Len(mr.Issues) + Len(issues) <= MaxHeld
       /\ Len(mr.Transfers) + Len(transfers) <= MaxHeld
       /\ mr' = [Before("Import", Len(issues) + Len(transfers) > 0) EXCEPT
                   !.Issues = mr.Issues \o issues,
                   !.Transfers = mr.Transfers \o transfers]
  /\ UNCHANGED <<ccVars, reqVars, signed, listed, rp, sg, an, ex, pm, rc, qt, sl, sm>>

\* Request.SetAuditorSignature
mr_SetAuditorSignature ==
  /\ \E sigma \in Sigmas \cup {NilBytes} :
       mr' = [Before("SetAuditorSignature", FALSE) EXCEPT
                !.AuditorSignature = sigma]
  /\ UNCHANGED <<ccVars, reqVars, signed, listed, rp, sg, an, ex, pm, rc, qt, sl, sm>>

\* Request.AppendSignature
mr_AppendSignature ==
  /\ Len(mr.Signatures) < MaxSignatures
  /\ \E sigma \in Sigmas :
       mr' = [Before("AppendSignature", FALSE) EXCEPT
                !.Signatures = Append(mr.Signatures, sigma)]
  /\ UNCHANGED <<ccVars, reqVars, signed, listed, rp, sg, an, ex, pm, rc, qt, sl, sm>>

NextMarshal ==
  \/ mr_Issue
  \/ mr_Transfer
  \/ mr_Redeem
  \/ mr_Import
  \/ mr_SetAuditorSignature
  \/ mr_AppendSignature

\* ------------------------------------------------------------------------
\* Specifications
\* ------------------------------------------------------------------------
SvcIdle ==
  ParamsIdle /\ RaceIdle /\ QueryIdle /\ SelectIdle /\ ManagerIdle /\ MarshalIdle

PureIdle ==
  SignedIdle /\ ListedIdle /\ RangeIdle /\ SigIdle /\ AnonymIdle /\ ExistIdle
    /\ SvcIdle

Init == InitCC /\ ReqIdle /\ PureIdle

InitReq ==
  /\ InitCC
  /\ PureIdle
  /\ vault \in [TokenIDs -> VaultTokens \cup {NoToken}]
  /\ req = NewRequest
  /\ out = NoOutcome

Spec == Init /\ [][Next]_vars

SpecReq == InitReq /\ [][NextReq]_vars

InitSpecSigned ==
  InitCC /\ ReqIdle /\ InitSigned /\ ListedIdle /\ RangeIdle /\ SigIdle
    /\ AnonymIdle /\ ExistIdle
    /\ SvcIdle

SpecSigned == InitSpecSigned /\ [][NextSigned]_vars

InitSpecListed ==
  InitListed /\ ReqIdle /\ SignedIdle /\ RangeIdle /\ SigIdle /\ AnonymIdle
    /\ ExistIdle
    /\ SvcIdle

SpecListed == InitSpecListed /\ [][NextListed]_vars

InitSpecRange ==
  InitCC /\ ReqIdle /\ SignedIdle /\ ListedIdle /\ InitRange /\ SigIdle
    /\ AnonymIdle /\ ExistIdle
    /\ SvcIdle

SpecRange == InitSpecRange /\ [][NextRange]_vars

InitSpecSig ==
  InitCC /\ ReqIdle /\ SignedIdle /\ ListedIdle /\ RangeIdle /\ InitSig
    /\ AnonymIdle /\ ExistIdle
    /\ SvcIdle

SpecSig == InitSpecSig /\ [][NextSig]_vars

InitSpecAnonym ==
  InitCC /\ ReqIdle /\ SignedIdle /\ ListedIdle /\ RangeIdle /\ SigIdle
    /\ InitAnonym /\ ExistIdle
    /\ SvcIdle

SpecAnonym == InitSpecAnonym /\ [][NextAnonym]_vars

InitSpecExist ==
  InitCC /\ ReqIdle /\ SignedIdle /\ ListedIdle /\ RangeIdle /\ SigIdle
    /\ AnonymIdle /\ InitExist
    /\ SvcIdle

SpecExist == InitSpecExist /\ [][NextExist]_vars

InitSpecParams ==
  InitCC /\ ReqIdle /\ SignedIdle /\ ListedIdle /\ RangeIdle /\ SigIdle
    /\ AnonymIdle /\ ExistIdle /\ InitParams /\ RaceIdle /\ QueryIdle
    /\ SelectIdle /\ ManagerIdle /\ MarshalIdle

SpecParams == InitSpecParams /\ [][NextParams]_vars

InitSpecRace ==
  InitCC /\ ReqIdle /\ SignedIdle /\ ListedIdle /\ RangeIdle /\ SigIdle
    /\ AnonymIdle /\ ExistIdle /\ ParamsIdle /\ InitRace /\ QueryIdle
    /\ SelectIdle /\ ManagerIdle /\ MarshalIdle

SpecRace == InitSpecRace /\ [][NextRace]_vars

InitSpecQuery ==
  InitCC /\ ReqIdle /\ SignedIdle /\ ListedIdle /\ RangeIdle /\ SigIdle
    /\ AnonymIdle /\ ExistIdle /\ ParamsIdle /\ RaceIdle /\ InitQuery
    /\ SelectIdle /\ ManagerIdle /\ MarshalIdle

SpecQuery == InitSpecQuery /\ [][NextQuery]_vars

InitSpecSelect ==
  InitCC /\ ReqIdle /\ SignedIdle /\ ListedIdle /\ RangeIdle /\ SigIdle
    /\ AnonymIdle /\ ExistIdle /\ ParamsIdle /\ RaceIdle /\ QueryIdle
    /\ InitSelect /\ ManagerIdle /\ MarshalIdle

SpecSelect == InitSpecSelect /\ [][NextSelect]_vars

InitSpecManager ==
  InitCC /\ ReqIdle /\ SignedIdle /\ ListedIdle /\ RangeIdle /\ SigIdle
    /\ AnonymIdle /\ ExistIdle /\ ParamsIdle /\ RaceIdle /\ QueryIdle
    /\ SelectIdle /\ InitManager /\ MarshalIdle

SpecManager == InitSpecManager /\ [][NextManager]_vars

InitSpecMarshal ==
  InitCC /\ ReqIdle /\ SignedIdle /\ ListedIdle /\ RangeIdle /\ SigIdle
    /\ AnonymIdle /\ ExistIdle /\ ParamsIdle /\ RaceIdle /\ QueryIdle
    /\ SelectIdle /\ ManagerIdle /\ InitMarshal

SpecMarshal == InitSpecMarshal /\ [][NextMarshal]_vars

\* ------------------------------------------------------------------------
\* Properties of the Request
\* ------------------------------------------------------------------------
\* C9: the token service's Transfer is never handed inputs and outputs whose
\* sums differ.
C9_SumsPreserved ==
  out.transferCalled => out.handedIn = out.handedOut

\* C10: a call that passes token ids of tokens of different types is refused:
\* parseInputIDs returns an error, the call returns an error and the token
\* service's Transfer is not called.
C10_MixedTypesRefused ==
  out.mixed =>
    /\ out.parseErr # NoErr
    /\ out.status = "error"
    /\ ~out.transferCalled

\* C11: a call that appends to the request has verified the action it
\* generated before, and no issue action that fails VerifyIssue is in the
\* request.
C11_SelfVerified ==
  /\ out.appended => out.verified
  /\ \A k \in 1..Len(req.Issues) : req.Issues[k].valid

C13_WrittenInOrder ==
  /\ pc = "write" =>
       /\ Len(listed.actions) = Len(listed.request.Issues) + Len(listed.request.Transfers)
       /\ \A k \in 1..Len(listed.request.Issues) :
            listed.actions[k] = listed.request.Issues[k]
       /\ \A k \in 1..Len(listed.request.Transfers) :
            listed.actions[Len(listed.request.Issues) + k] = listed.request.Transfers[k]
       /\ Len(listed.written) = i
  /\ Len(listed.written) <= Len(listed.actions)
  /\ listed.written = SubSeq(listed.actions, 1, Len(listed.written))
  /\ resp = Success => listed.written = listed.actions

C13_Witness ==
  /\ resp = Success
  /\ Len(listed.written) = 2
  /\ listed.written[1].kind = "issue"
  /\ listed.written[2].kind = "transfer"

\* ------------------------------------------------------------------------
\* Properties of the range proof
\* ------------------------------------------------------------------------
\* C14: the prover refuses exactly the witnesses with a value of at least
\* Base^Exponent: Prove fails with the range error when some value is that
\* large, and does not fail on range grounds when all values are below.
C14_RangeRefusal ==
  rp.stage # "new" =>
    ((\E k \in 1..Len(rp.tokenWitness) :
        rp.tokenWitness[k].Value >= IntPow(rp.Base, rp.Exponent))
     <=> rp.err = ErrRange)

\* C15: for values below Base^Exponent the digit vector has Exponent entries,
\* each in [0, Base), least significant first, with sum of digit[i] * Base^i
\* equal to the value.
C15_DigitsExact ==
  rp.stage # "new" =>
    \A k \in 1..Len(rp.values) :
      rp.tokenWitness[k].Value < IntPow(rp.Base, rp.Exponent) =>
        /\ Len(rp.values[k]) = rp.Exponent
        /\ \A j \in 1..rp.Exponent :
             /\ rp.values[k][j] \in 0..(rp.Base - 1)
             /\ rp.values[k][j]
                  = (rp.tokenWitness[k].Value \div IntPow(rp.Base, j - 1)) % rp.Base

\* C16: the proof the prover produces for witnesses with values below
\* Base^Exponent is accepted by the verifier with the same public inputs.
C16_Completeness ==
  (/\ rp.stage = "verified"
   /\ rp.given = rp.proof
   /\ \A k \in 1..Len(rp.tokenWitness) :
        rp.tokenWitness[k].Value < IntPow(rp.Base, rp.Exponent))
    => rp.verdict = NoErr

\* the witnesses of one proof all carry one type
SameType ==
  \A k \in 1..Len(rp.tokenWitness) :
    rp.tokenWitness[k].Type = rp.tokenWitness[1].Type

\* the divisors and weights Base^0 .. Base^(Exponent-1) are exact in float64
ExactPowers ==
  \A d \in 0..rp.Exponent : Pow(rp.Base, d) = IntPow(rp.Base, d)

\* completeness within the exact range of float64 and for one type
C16_CompletenessExact ==
  (rp.stage = "verified" /\ rp.given = rp.proof /\ SameType /\ ExactPowers)
    => rp.verdict = NoErr

\* C18: one range proof computes one challenge, after all commitments, and
\* every response of the proof, of the membership proofs too, uses it.
C18_SingleChallenge ==
  rp.stage \in {"proved", "verified"} =>
    /\ rp.challenges = 1
    /\ \A k \in 1..Len(rp.proof.MembershipProofs) :
         \A j \in 1..rp.Exponent :
           rp.proof.MembershipProofs[k].SignatureProofs[j].Challenge
             = rp.proof.Challenge

\* ------------------------------------------------------------------------
\* Properties of the signature proof and of the anonymous issuer
\* ------------------------------------------------------------------------
\* C17: SigVerifier.Verify returns an error for every proof whose number of
\* hidden responses plus the number of disclosed values is not the length
\* of the public key minus 2.
C17_LengthMismatchRefused ==
  (/\ sg.stage = "verified"
   /\ Len(sg.p.Hidden) + Len(sg.v.Disclosed) # sg.v.PK - 2)
    => sg.err # NoErr

\* C19: Verifier.Verify accepts only when the one-out-of-many proof over
\* Auth.Type minus each issuer and the type correctness proof both verify,
\* the signature deserializes and there are 3 Pedersen parameters; in every
\* other case it returns an error.
C19_BothProofs ==
  an.stage = "verified" =>
    (an.err = NoErr <=>
       /\ an.given.nParams = 3
       /\ an.given.rawsig.wellFormed
       /\ o2ompVerify([k \in 1..MaxIssuers |->
                         G1Sub(an.given.Auth.Type, Issuers[k])],
                      an.given.message,
                      an.given.rawsig.AuthorizationCorrectness)
       /\ TypeCorrectnessVerify(an.given.Auth, an.given.message,
                                an.given.rawsig.TypeCorrectness))

\* an authorization proof that verifies next to a type proof that does not
C19_Witness ==
  /\ an.stage = "verified"
  /\ an.err = ErrTypeCorrectness
  /\ an.given.rawsig.wellFormed
  /\ an.given.rawsig.AuthorizationCorrectness.sound

\* ------------------------------------------------------------------------
\* Properties of the existence checks
\* ------------------------------------------------------------------------
\* the ledger with nothing in the place of every empty value
absentForEmpty(rws) ==
  [rws EXCEPT !.st = [k \in Keys |-> IF rws.st[k] = Empty THEN Nil ELSE rws.st[k]]]

\* C20: every existence check gives for a key with an empty value the
\* outcome it gives for the key holding nothing.
C20_NilAsEmpty ==
  ex.op # NoOp => ex.err = existenceCheck(ex.op, absentForEmpty(ex.rws))

\* ------------------------------------------------------------------------
\* Malformed range proofs
\* ------------------------------------------------------------------------
\* C21: for a proof that deserializes and is malformed (membership proofs
\* not one per token, digit commitments not Exponent many, equality
\* vectors missing or short) Verify ends with an error value, not a panic.
C21_MalformedRefused ==
  (rp.stage = "verified" /\ rp.given # rp.proof) => rp.verdict = ErrVerifyRange

\* ------------------------------------------------------------------------
\* Recipients
\* ------------------------------------------------------------------------
\* C22: a redeem with an owner that is not empty, a transfer with an empty
\* owner and an issue with an empty receiver are rejected, before anything
\* is queried, selected or certified.
C22_RecipientsChecked ==
  /\ (out.call # "none" /\ ~out.ownersOK) =>
        out.status = "error" /\ out.calls = <<>> /\ ~out.appended
  /\ \A redeem \in BOOLEAN, owner \in Identities, tokenIDs \in SeqsUpTo(TokenIDs, 0, 1),
        selOK \in BOOLEAN :
       LET r == prepareTransfer(vault, redeem, "A", <<1>>, <<owner>>, tokenIDs,
                                TRUE, selOK)
       IN  IsNone(owner) # redeem =>
             /\ r.err = IF redeem THEN ErrRecipientsNil ELSE ErrRecipientsDefined
             /\ r.calls = <<>>

\* a transfer with an empty owner, refused
C22_Witness ==
  out.call = "Transfer" /\ ~out.ownersOK /\ out.status = "error"

\* ------------------------------------------------------------------------
\* More properties of Translator.Write
\* ------------------------------------------------------------------------
\* the input list of the action names some key twice
HasRepeatedInput(a) ==
  \E j, k \in 1..Len(GetInputs(a)) : j # k /\ GetInputs(a)[j] = GetInputs(a)[k]

\* C23: Write rejects a transfer whose input list names one key twice, so a
\* token counts as a spent input at most once.
C23_NoRepeatedInput ==
  pc = "write" =>
    \A a \in Room(counter) :
      (a.kind = "transfer" /\ HasRepeatedInput(a)) =>
        Write(ledger, tx, counter, a).err # NoErr

\* C24: a transfer writes no key for a redeemed output and its check does
\* not look at that index, the counter advances by all outputs, and every
\* output that is not redeemed is stored at the index of its position.
C24_RedeemedSkipped ==
  pc = "write" =>
    \A a \in Room(counter) :
      a.kind = "transfer" =>
        LET w == Write(ledger, tx, counter, a)
            redeemed == {x \in 0..(NumOutputs(a) - 1) : IsRedeemAt(a, x)}
        IN  /\ (~InputCheckFails(ledger, a)
                 /\ ~HasExistingOutput(ledger, tx, counter, a)) => w.err = NoErr
            /\ w.err = NoErr =>
                 /\ w.counter = counter + NumOutputs(a)
                 /\ \A x \in 0..(NumOutputs(a) - 1) :
                      LET k == CreateTokenKey(tx, counter + x)
                      IN  IF x \in redeemed
                          THEN k \notin InputSet(a) =>
                                 /\ GetState(w.rws, k) = GetState(ledger, k)
                                 /\ w.rws.md[k] = ledger.md[k]
                          ELSE /\ GetState(w.rws, k) = SerializeOutputAt(a, x)
                               /\ w.rws.md[k] = ActionTransfer

\* one transfer written: its first output redeemed, its second stored at
\* index 1
C24_Witness ==
  /\ pc = "write"
  /\ i = 1
  /\ lastAct \in {"transfer", "ghtransfer"}
  /\ counter = 2
  /\ GetState(ledger, CreateTokenKey(tx, 0)) = Nil
  /\ GetState(ledger, CreateTokenKey(tx, 1)) = OutputBytes

\* C25: a written issue sets output and tag issue at each of its output
\* keys; a written transfer sets output and tag transfer at each output key
\* that is not redeemed, then deletes every input key with its metadata, or
\* when graph hiding sets every input key to the marker; no other key changes.
C25_FrameOfWrite ==
  pc = "write" =>
    \A a \in Room(counter) :
      LET w == Write(ledger, tx, counter, a)
          outs == OutputKeys(tx, counter, a)
          ins == IF a.kind = "transfer" THEN InputSet(a) ELSE {}
          tag == IF a.kind = "issue" THEN ActionIssue ELSE ActionTransfer
      IN  w.err = NoErr =>
            /\ \A x \in 0..(NumOutputs(a) - 1) :
                 ~IsRedeemAt(a, x) =>
                   /\ GetState(w.rws, CreateTokenKey(tx, counter + x))
                        = SerializeOutputAt(a, x)
                   /\ w.rws.md[CreateTokenKey(tx, counter + x)] = tag
            /\ \A k \in ins :
                 IF IsGraphHiding(a)
                 THEN GetState(w.rws, k) = FormatBoolTrue
                 ELSE GetState(w.rws, k) = Nil /\ w.rws.md[k] = NoTag
            /\ \A k \in Keys \ (outs \cup ins) :
                 /\ GetState(w.rws, k) = GetState(ledger, k)
                 /\ w.rws.md[k] = ledger.md[k]

\* a transfer written after an issue: the issued token is deleted with its
\* tag, the setup parameters are in place
C25_Witness ==
  /\ pc = "write"
  /\ i = 2
  /\ lastAct = "transfer"
  /\ GetState(ledger, CreateTokenKey(tx, 0)) = Nil
  /\ ledger.md[CreateTokenKey(tx, 0)] = NoTag
  /\ CreateTokenKey(tx, 0) \in everWritten
  /\ GetState(ledger, CreateSetupKey) = SetupParameters


\* C26: after every successful init the cached digest is the SHA-256 of the
\* setup parameters on the ledger and the cached validator and manager are
\* the pair the factory builds from them; the factory is called only when
\* the digest differs or no validator is cached; a failed factory call
\* leaves the cached triple as it was; a request is verified by the
\* validator of the parameters on the ledger, never by an older one
C26_CacheFollowsLedger ==
  LET f == TokenServicesFactory(pm.ppRead)
  IN  pm.op \in {"invoke", "addIssuer", "addAuditor", "addCertifier"} =>
        /\ pm.initErr = NoErr =>
             /\ pm.cc.PPDigest = SHA256(pm.ppRead)
             /\ pm.cc.Validator = f.validator
             /\ pm.cc.PublicParametersManager = f.ppm
        /\ pm.called =>
             \/ SHA256(pm.ppRead) # pm.before.PPDigest
             \/ pm.before.Validator = NoService
        /\ pm.initErr # NoErr => pm.cc = pm.before
        /\ (pm.op = "invoke" /\ pm.initErr = NoErr) =>
             pm.validator = f.validator

\* a request verified after the parameters changed under a cached validator
C26_Witness ==
  /\ pm.op = "invoke"
  /\ pm.initErr = NoErr
  /\ pm.called
  /\ pm.before.Validator # NoService
  /\ pm.before.PPDigest # SHA256(pm.ppRead)
  /\ pm.validator = TokenServicesFactory(pm.ppRead).validator
  /\ pm.err = NoErr

\* the invocations that run at the same time and read different parameters
Concurrent(p, q) ==
  /\ p # q
  /\ rc.inv[p].pc # "idle" /\ rc.inv[q].pc # "idle"
  /\ rc.inv[p].ppRaw # rc.inv[q].ppRaw

\* C27: of two invocations that run concurrently on one TokenChaincode and
\* read different public parameters, each verifies its request with the
\* validator built from the parameters it read itself
C27_OwnValidator ==
  \A p, q \in Invocations :
    (Concurrent(p, q) /\ rc.inv[p].pc \in {"verify", "done"}
       /\ rc.inv[p].validator # NoService) =>
      rc.inv[p].validator = TokenServicesFactory(rc.inv[p].ppRaw).validator

\* C27, second half: an invocation whose init returned finds a validator,
\* a manager and a digest that belong together
C27_TripleTogether ==
  \A p \in Invocations :
    rc.inv[p].pc = "return" =>
      \E n \in 1..MaxParams :
        /\ rc.cc.PPDigest = SHA256(PublicParams(n))
        /\ rc.cc.Validator = TokenServicesFactory(PublicParams(n)).validator
        /\ rc.cc.PublicParametersManager = TokenServicesFactory(PublicParams(n)).ppm

\* the id can be keyed and read, and its key holds a non-empty value
Held(id) ==
  /\ id[1] # BadTxID
  /\ qt.rws.st[CreateTokenKey(id[1], id[2])] \notin {Nil, Empty, ReadFails}

\* C28: QueryTokens returns the stored values of the requested ids, one per
\* id and in the order requested, exactly when every id can be keyed and
\* read and holds a non-empty value; otherwise it returns an error and no
\* value at all
C28_AllOrNothing ==
  (qt.called \in {"QueryTokens", "queryTokens"} /\ qt.parsed) =>
    IF \A j \in 1..Len(qt.ids) : Held(qt.ids[j])
    THEN /\ qt.err = NoErr
         /\ Len(qt.res) = Len(qt.ids)
         /\ \A j \in 1..Len(qt.ids) :
              qt.res[j] = qt.rws.st[CreateTokenKey(qt.ids[j][1], qt.ids[j][2])]
         /\ qt.called = "queryTokens" => qt.resp = Success
    ELSE /\ qt.err # NoErr
         /\ qt.res = <<>>
         /\ qt.called = "queryTokens" => qt.resp.status = "error"

\* two ids queried, the first holds a token and the second holds nothing
C28_Witness ==
  /\ qt.called = "QueryTokens"
  /\ Len(qt.ids) = 2
  /\ Held(qt.ids[1])
  /\ ~Held(qt.ids[2])
  /\ qt.err # NoErr
  /\ qt.res = <<>>

RECURSIVE SumOfListed(_, _)
SumOfListed(ids, j) ==
  IF j = 0 THEN 0
  ELSE SumOfListed(ids, j - 1) + sl.call.tokens[ids[j]].Quantity

\* C29: when Select returns successfully, every returned id is of the
\* requested type, has an owner the filter accepts, was locked under the
\* selector's txID in the call, was confirmed by the final GetTokens check,
\* and the returned sum is the sum of the returned tokens' quantities and is
\* at least the requested quantity
C29_SelectedTokens ==
  (sl.at = "done" /\ sl.err = NoErr) =>
    /\ \A j \in 1..Len(sl.ids) :
         LET t == sl.call.tokens[sl.ids[j]]
         IN  /\ t.Type = sl.call.tokenType
             /\ Contains(sl.call.ownerFilter, t.Owner)
             /\ sl.ids[j] \in sl.took
             /\ sl.ids[j] \in sl.confirmed
    /\ sl.sum = SumOfListed(sl.ids, Len(sl.ids))
    /\ sl.sum >= sl.call.target

\* a selection of two tokens under a wallet filter, found in a later round
C29_Witness ==
  /\ sl.at = "done"
  /\ sl.err = NoErr
  /\ Len(sl.ids) = 2
  /\ sl.call.ownerFilter # AllOwners
  /\ sl.n > 0

\* C30: whenever Select returns an error, every token it locked during the
\* call has been unlocked again
C30_UnlockedOnError ==
  (sl.at = "done" /\ sl.err \notin {NoErr, "panic"}) => sl.mine = {}

\* Select fails on a quantity that does not convert after it locked a token
C30_Witness ==
  /\ sl.at = "done"
  /\ sl.err = ErrConvert
  /\ sl.took # {}
  /\ sl.mine = {}

\* C31: when Select returns successfully, the tokens still locked under its
\* txID are exactly the returned tokens
C31_OnlyReturnedLocked ==
  (sl.at = "done" /\ sl.err = NoErr) => sl.mine = SeqRange(sl.ids)

Max(a, b) == IF a >= b THEN a ELSE b

\* C32: Select runs its loop at most max(1, numRetry) times, with a wait
\* after every round but the last; while it has not returned the next round
\* can always be run (every round adds one to the rounds run, so the call
\* returns); after it returned no round is started; this also when numRetry
\* is 0 or negative
C32_Terminates ==
  /\ sl.rounds <= Max(1, sl.call.numRetry)
  /\ sl.at = "loop" => (sl.n = sl.rounds /\ ENABLED sl_round)
  /\ (sl.at = "done" /\ sl.rounds > 0) => sl.n = sl.rounds - 1
  /\ sl.at = "done" => ~ENABLED NextSelect

\* a call with numRetry 0 that returned after one round
C32_Witness ==
  /\ sl.at = "done"
  /\ sl.call.numRetry <= 0
  /\ sl.rounds = 1

\* the ids of the listing that have the requested type and an accepted owner
Matching(c) ==
  {id \in TokenIDs : /\ c.tokens[id].Type = c.tokenType
                     /\ Contains(c.ownerFilter, c.tokens[id].Owner)}

RECURSIVE QuantityOf(_, _)
QuantityOf(c, ids) ==
  IF ids = {} THEN 0
  ELSE LET id == CHOOSE x \in ids : TRUE
       IN  c.tokens[id].Quantity + QuantityOf(c, ids \ {id})

\* the ids a round can lock, and those of them it can spend as they are
Lockable(c, e) == Matching(c) \ e.busy
Selectable(c, e) ==
  IF c.certClient THEN Lockable(c, e) \cap e.certified ELSE Lockable(c, e)

\* the selectable ids up to the first position where they reach the target
Gathered(c, e) ==
  LET upTo(k) == {id \in Selectable(c, e) : id <= k}
      reach == {k \in TokenIDs : QuantityOf(c, upTo(k)) >= c.target}
  IN  IF reach = {} THEN Selectable(c, e)
      ELSE upTo(CHOOSE k \in reach : \A m \in reach : k <= m)

\* the cause the claim names for a last round that fails in environment e
Cause(c, e) ==
  LET enough == QuantityOf(c, Selectable(c, e)) >= c.target
      withLocked == QuantityOf(c, Selectable(c, e) \cup (Matching(c) \cap e.busy))
      withNonCertified == QuantityOf(c, Lockable(c, e))
      certifying == /\ ~enough /\ withNonCertified >= c.target
                    /\ c.requestCertification /\ e.certify
  IN  IF enough /\ Gathered(c, e) \cap e.gone # {} THEN ErrConcurrency
      ELSE IF certifying /\ Lockable(c, e) \cap e.gone # {} THEN ErrConcurrency
      ELSE IF withLocked >= c.target /\ ~enough THEN ErrLockedFunds
      ELSE IF withNonCertified >= c.target /\ ~enough THEN ErrNotCertified
      ELSE ErrInsufficient

SelectEnvironments ==
  [busy : SUBSET TokenIDs, certified : SUBSET TokenIDs, gone : SUBSET TokenIDs,
   listed : {TRUE}, certify : BOOLEAN]

\* C33: a last round of Select that fails reports exactly one cause:
\* the concurrency issue if enough funds were gathered and the existence
\* check failed, else locked funds if the selectable tokens with those
\* locked by others reach the target, else missing certification if the
\* lockable tokens with the uncertified ones reach it, else insufficient
\* funds
C33_OneCause ==
  (sl.at = "loop" /\ lastRound(sl.call, sl.n)
     /\ \A id \in TokenIDs : sl.call.tokens[id].Quantity # NotANumber) =>
    \A e \in SelectEnvironments :
      LET r == selectRound(sl.call, e, sl.n)
      IN  r.err \notin {NoErr, "panic"} => r.err = Cause(sl.call, e)

\* the retries are used up in a second round with funds locked by others
C33_Witness ==
  /\ sl.at = "done"
  /\ sl.rounds = 2
  /\ sl.err = ErrLockedFunds

\* the calls of LockerProvider.New made for a management service
NewCalls(tms) == {j \in 1..Len(sm.news) : sm.news[j] = tms}

\* C34: whatever the interleaving of the calls of SelectorManager,
\* LockerProvider.New is called at most once for a (network, channel,
\* namespace) of the resolved management service, and all selector managers
\* made for that triple have one and the same locker, the one New gave if
\* it was called for the triple
C34_OneLocker ==
  \A tms \in Services :
    /\ Cardinality(NewCalls(tms)) <= 1
    /\ \A m1, m2 \in sm.managers :
         (m1[1] = tms /\ m2[1] = tms) => m1[2] = m2[2]
    /\ \A m1 \in sm.managers, j \in NewCalls(tms) : m1[1] = tms => m1[2] = j

\* two goroutines were given managers for the same triple, while both were
\* inside SelectorManager at once
C34_Witness ==
  /\ Len(sm.news) = 1
  /\ \E tms \in Services : <<tms, 1>> \in sm.managers
  /\ sm.caller[1].calls > 0 /\ sm.caller[2].calls > 0
  /\ sm.caller[1].tms = sm.caller[2].tms
  /\ \E p \in Callers : sm.caller[p].pc = "idle" /\ sm.caller[3 - p].pc = "new"

\* C35: after any sequence of Issue, Transfer, Redeem and Import calls the
\* request holds as many issue metadata as issue actions and as many
\* transfer metadata as transfer actions, and a call that returns an error
\* leaves the lists as they were
C35_ListsAligned ==
  /\ Len(req.Issues) = Len(req.MetaIssues)
  /\ Len(req.Transfers) = Len(req.MetaTransfers)
  /\ out.status = "error" => ~out.appended

\* C36: the output sum prepareTransfer compares with the input sum is the
\* arithmetic sum of the requested values; it never wraps.
C36_TrueOutputSum ==
  out.transferCalled => out.outputSum = out.requested


\* C37: the bytes of MarshallToSign and MarshallToAudit are those of the
\* request with the same Issues and Transfers (and TxID) and no signature;
\* AppendSignature and SetAuditorSignature leave both unchanged, and an
\* Issue, Transfer, Redeem or Import that added an action changed both.
C37_MarshalFrame ==
  LET bare == [mr EXCEPT !.Signatures = <<>>, !.AuditorSignature = NilBytes]
  IN  /\ Request_MarshallToSign(mr) = Request_MarshallToSign(bare)
      /\ Request_MarshallToAudit(mr) = Request_MarshallToAudit(bare)
      /\ mr.op \in {"AppendSignature", "SetAuditorSignature"} =>
            /\ Request_MarshallToSign(mr) = mr.sign0
            /\ Request_MarshallToAudit(mr) = mr.audit0
      /\ (mr.op \in {"Issue", "Transfer", "Redeem", "Import"} /\ mr.grew) =>
            /\ Request_MarshallToSign(mr) # mr.sign0
            /\ Request_MarshallToAudit(mr) # mr.audit0

\* a signature appended to a request that holds an issue, a transfer and an
\* auditor signature
C37_Witness ==
  /\ mr.op = "AppendSignature"
  /\ Len(mr.Signatures) > 0
  /\ mr.AuditorSignature # NilBytes
  /\ Len(mr.Issues) > 0 /\ Len(mr.Transfers) > 0

====
